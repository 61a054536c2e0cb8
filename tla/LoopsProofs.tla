------------------------------ MODULE LoopsProofs ------------------------------
(***************************************************************************)
(* Proofs about Loops, for every set of repositories, every bound on the   *)
(* ticks, and with fetching enabled or disabled: nothing is forgotten, and *)
(* the loops cannot keep each other awake.                                 *)
(***************************************************************************)
EXTENDS Loops, TLAPS

\* What is owed is owed to a row, and a fetch belongs to a cycle that will end with
\* a notification.
OwedToRows ==
    /\ \A l \in Notified : owed[l] \subseteq tracked
    /\ fetching # {} => "fetch" \in busy

LoopsInv == LoopsTypeOK /\ OwedToRows /\ NoCheckForgotten /\ NoFetchForgotten

LEMMA InitLoops == Init => LoopsInv
<1> SUFFICES ASSUME Init PROVE LoopsInv
  OBVIOUS
<1> USE LoopsAssumption DEF LoopsAssumption, Init, Loop, Notified
<1>1. LoopsTypeOK
  BY DEF LoopsTypeOK, NoJobs, JobState, Started
<1>2. OwedToRows
  BY DEF OwedToRows
<1>3. NoCheckForgotten /\ NoFetchForgotten
  BY DEF NoCheckForgotten, NoFetchForgotten, Coming
<1> QED BY <1>1, <1>2, <1>3 DEF LoopsInv

\* Waking spends a tick or the permit of the loop that wakes, and nothing else.
LEMMA WakeFacts ==
    ASSUME LoopsTypeOK, NEW l \in Loop, Wake(l)
    PROVE  /\ l \in Started /\ l \notin busy
           /\ due' \in [Loop -> 0 .. MaxDue]
           /\ permit' \in [Notified -> BOOLEAN]
           /\ \A k \in Loop : k # l => due'[k] = due[k]
           /\ \A k \in Notified : k # l => permit'[k] = permit[k]
<1> USE LoopsAssumption DEF LoopsAssumption, LoopsTypeOK, Wake
<1>1. CASE due[l] > 0 /\ due' = [due EXCEPT ![l] = @ - 1] /\ permit' = permit
  BY <1>1
<1>2. CASE /\ l \in Notified
           /\ permit[l]
           /\ permit' = [permit EXCEPT ![l] = FALSE]
           /\ due' = due
  BY <1>2
<1> QED BY <1>1, <1>2

LEMMA OvertakeFacts ==
    ASSUME LoopsTypeOK, NEW S
    PROVE  /\ Overtake(S) \in [Repos -> JobState]
           /\ \A p \in Repos : p \notin S => Overtake(S)[p] = job[p]
           /\ \A p \in Repos : job[p] = "todo" => Overtake(S)[p] = "todo"
BY DEF LoopsTypeOK, Overtake, JobState

LEMMA LoopNames == /\ "scan" \in Loop /\ "check" \in Loop /\ "fetch" \in Loop
                   /\ "check" \in Notified /\ "fetch" \in Notified
                   /\ Notified \subseteq Loop
BY DEF Loop, Notified

LEMMA TypeStep == LoopsInv /\ [Next]_vars => LoopsTypeOK'
<1> SUFFICES ASSUME LoopsInv, [Next]_vars PROVE LoopsTypeOK'
  OBVIOUS
<1> USE LoopNames, LoopsAssumption DEF LoopsInv, LoopsTypeOK
<1>1. CASE Restart
  BY <1>1 DEF Restart, NoJobs, JobState, LoopsAssumption
<1>2. ASSUME NEW l \in Loop, Tick(l) PROVE LoopsTypeOK'
  BY <1>2 DEF Tick, LoopsAssumption
<1>3. CASE StartScan
  BY <1>3, WakeFacts DEF StartScan
<1>4. CASE EndScan
  <2>1. PICK new \in SUBSET (Repos \ tracked) :
            \E lost \in SUBSET (tracked \cup new) : ScanTable(new, lost)
    BY <1>4 DEF EndScan
  <2>2. PICK lost \in SUBSET (tracked \cup new) : ScanTable(new, lost)
    BY <2>1
  <2>3. job' \in [Repos -> JobState]
    BY <2>2, OvertakeFacts DEF ScanTable
  <2>4. /\ tracked' \in SUBSET Repos /\ ghosts' \in SUBSET Repos
        /\ owed' \in [Notified -> SUBSET Repos]
        /\ slipped' \in [Notified -> SUBSET Repos]
    BY <2>2 DEF ScanTable
  <2>5. busy' \in SUBSET Started /\ permit' \in [Notified -> BOOLEAN]
    BY <1>4 DEF EndScan
  <2> QED BY <1>4, <2>3, <2>4, <2>5 DEF EndScan
<1>5. CASE StartCheck
  <2>1. job' \in [Repos -> JobState]
    BY <1>5 DEF StartCheck, JobState
  <2> QED BY <1>5, <2>1, WakeFacts DEF StartCheck
<1>6. CASE FailCheck
  BY <1>6, WakeFacts DEF FailCheck
<1>7. CASE EndCheck
  BY <1>7 DEF EndCheck
<1>8. CASE StartFetch
  BY <1>8, WakeFacts DEF StartFetch
<1>9. CASE FailFetch
  BY <1>9, WakeFacts DEF FailFetch
<1>10. CASE EndFetch
  BY <1>10 DEF EndFetch
<1>11. ASSUME NEW p \in Repos, CheckTask(p) PROVE LoopsTypeOK'
  BY <1>11 DEF CheckTask, Inspect, Save, Settle, LoseStatus, JobState
<1>12. ASSUME NEW p \in Repos, FetchDone(p) PROVE LoopsTypeOK'
  BY <1>12, OvertakeFacts DEF FetchDone
<1>13. CASE UNCHANGED vars
  BY <1>13 DEF vars
<1> QED BY <1>1, <1>2, <1>3, <1>4, <1>5, <1>6, <1>7, <1>8, <1>9, <1>10, <1>11,
           <1>12, <1>13 DEF Next

LEMMA OwedStep == LoopsInv /\ [Next]_vars => OwedToRows'
<1> SUFFICES ASSUME LoopsInv, [Next]_vars PROVE OwedToRows'
  OBVIOUS
<1> USE LoopNames DEF LoopsInv, LoopsTypeOK, OwedToRows
<1>1. CASE Restart
  BY <1>1 DEF Restart
<1>2. ASSUME NEW l \in Loop, Tick(l) PROVE OwedToRows'
  BY <1>2 DEF Tick
<1>3. CASE StartScan
  BY <1>3 DEF StartScan
<1>4. CASE EndScan
  <2>1. PICK new \in SUBSET (Repos \ tracked) :
            \E lost \in SUBSET (tracked \cup new) : ScanTable(new, lost)
    BY <1>4 DEF EndScan
  <2>2. PICK lost \in SUBSET (tracked \cup new) : ScanTable(new, lost)
    BY <2>1
  <2>3. \A l \in Notified : owed'[l] \subseteq tracked'
    BY <2>2 DEF ScanTable
  <2> QED BY <1>4, <2>3 DEF EndScan
<1>5. CASE StartCheck
  BY <1>5 DEF StartCheck
<1>6. CASE FailCheck
  BY <1>6 DEF FailCheck
<1>7. CASE EndCheck
  BY <1>7 DEF EndCheck
<1>8. CASE StartFetch
  BY <1>8 DEF StartFetch
<1>9. CASE FailFetch
  BY <1>9 DEF FailFetch
<1>10. CASE EndFetch
  BY <1>10 DEF EndFetch
<1>11. ASSUME NEW p \in Repos, CheckTask(p) PROVE OwedToRows'
  BY <1>11 DEF CheckTask, Inspect, Save, Settle, LoseStatus
<1>12. ASSUME NEW p \in Repos, FetchDone(p) PROVE OwedToRows'
  BY <1>12 DEF FetchDone
<1>13. CASE UNCHANGED vars
  BY <1>13 DEF vars
<1> QED BY <1>1, <1>2, <1>3, <1>4, <1>5, <1>6, <1>7, <1>8, <1>9, <1>10, <1>11,
           <1>12, <1>13 DEF Next

\* What a check is owed stays in the pass, or the next wake-up of check_loop is
\* certain.
LEMMA CheckStep == LoopsInv /\ [Next]_vars => NoCheckForgotten'
<1> SUFFICES ASSUME LoopsInv, [Next]_vars PROVE NoCheckForgotten'
  OBVIOUS
<1> USE LoopNames DEF LoopsInv, LoopsTypeOK, NoCheckForgotten, Coming
<1>1. CASE Restart
  BY <1>1 DEF Restart
<1>2. ASSUME NEW l \in Loop, Tick(l) PROVE NoCheckForgotten'
  <2>1. due'["check"] >= due["check"]
    BY <1>2 DEF Tick
  <2> QED BY <1>2, <2>1 DEF Tick
<1>3. CASE StartScan
  <2>1. due'["check"] = due["check"] /\ permit'["check"] = permit["check"]
    BY <1>3, WakeFacts DEF StartScan
  <2> QED BY <1>3, <2>1 DEF StartScan
<1>4. CASE EndScan
  BY <1>4 DEF EndScan
<1>5. CASE StartCheck
  BY <1>5 DEF StartCheck, OwedToRows
<1>6. CASE FailCheck
  BY <1>6 DEF FailCheck
<1>7. CASE EndCheck
  BY <1>7 DEF EndCheck, NoJobs
<1>8. CASE StartFetch
  <2>1. due'["check"] = due["check"] /\ permit'["check"] = permit["check"]
    BY <1>8, WakeFacts DEF StartFetch
  <2>2. owed'["check"] = owed["check"] /\ slipped'["check"] = slipped["check"]
    BY <1>8 DEF StartFetch
  <2> QED BY <1>8, <2>1, <2>2 DEF StartFetch
<1>9. CASE FailFetch
  <2>1. due'["check"] = due["check"] /\ permit'["check"] = permit["check"]
    BY <1>9, WakeFacts DEF FailFetch
  <2>2. slipped'["check"] = slipped["check"]
    BY <1>9 DEF FailFetch
  <2> QED BY <1>9, <2>1, <2>2 DEF FailFetch
<1>10. CASE EndFetch
  BY <1>10 DEF EndFetch
<1>11. ASSUME NEW p \in Repos, CheckTask(p) PROVE NoCheckForgotten'
  <2>1. CASE Inspect(p)
    BY <2>1 DEF Inspect
  <2>2. CASE Save(p)
    BY <2>2 DEF Save, Settle, OwedToRows
  <2>3. CASE LoseStatus(p)
    BY <2>3 DEF LoseStatus
  <2> QED BY <1>11, <2>1, <2>2, <2>3 DEF CheckTask
<1>12. ASSUME NEW p \in Repos, FetchDone(p) PROVE NoCheckForgotten'
  BY <1>12, OvertakeFacts DEF FetchDone, OwedToRows
<1>13. CASE UNCHANGED vars
  BY <1>13 DEF vars
<1> QED BY <1>1, <1>2, <1>3, <1>4, <1>5, <1>6, <1>7, <1>8, <1>9, <1>10, <1>11,
           <1>12, <1>13 DEF Next

LEMMA FetchStep == LoopsInv /\ [Next]_vars => NoFetchForgotten'
<1> SUFFICES ASSUME LoopsInv, [Next]_vars PROVE NoFetchForgotten'
  OBVIOUS
<1> USE LoopNames DEF LoopsInv, LoopsTypeOK, NoFetchForgotten, Coming
<1>1. CASE Restart
  BY <1>1 DEF Restart
<1>2. ASSUME NEW l \in Loop, Tick(l) PROVE NoFetchForgotten'
  <2>1. due'["fetch"] >= due["fetch"]
    BY <1>2 DEF Tick
  <2> QED BY <1>2, <2>1 DEF Tick
<1>3. CASE StartScan
  <2>1. due'["fetch"] = due["fetch"] /\ permit'["fetch"] = permit["fetch"]
    BY <1>3, WakeFacts DEF StartScan
  <2> QED BY <1>3, <2>1 DEF StartScan
<1>4. CASE EndScan
  BY <1>4 DEF EndScan
<1>5. CASE StartCheck
  <2>1. due'["fetch"] = due["fetch"] /\ permit'["fetch"] = permit["fetch"]
    BY <1>5, WakeFacts DEF StartCheck
  <2> QED BY <1>5, <2>1 DEF StartCheck
<1>6. CASE FailCheck
  <2>1. due'["fetch"] = due["fetch"] /\ permit'["fetch"] = permit["fetch"]
    BY <1>6, WakeFacts DEF FailCheck
  <2> QED BY <1>6, <2>1 DEF FailCheck
<1>7. CASE EndCheck
  BY <1>7 DEF EndCheck
<1>8. CASE StartFetch
  BY <1>8 DEF StartFetch
<1>9. CASE FailFetch
  BY <1>9 DEF FailFetch
<1>10. CASE EndFetch
  BY <1>10 DEF EndFetch
<1>11. ASSUME NEW p \in Repos, CheckTask(p) PROVE NoFetchForgotten'
  BY <1>11 DEF CheckTask, Inspect, Save, Settle, LoseStatus
<1>12. ASSUME NEW p \in Repos, FetchDone(p) PROVE NoFetchForgotten'
  BY <1>12 DEF FetchDone
<1>13. CASE UNCHANGED vars
  BY <1>13 DEF vars
<1> QED BY <1>1, <1>2, <1>3, <1>4, <1>5, <1>6, <1>7, <1>8, <1>9, <1>10, <1>11,
           <1>12, <1>13 DEF Next

LEMMA LoopsInvariant == Spec => []LoopsInv
<1>1. LoopsInv /\ [Next]_vars => LoopsInv'
  BY TypeStep, OwedStep, CheckStep, FetchStep DEF LoopsInv
<1> QED BY <1>1, InitLoops, PTL DEF Spec

\* The model of the loops is well typed.
THEOREM LoopsTypeCorrect == Spec => []LoopsTypeOK
<1>1. LoopsInv => LoopsTypeOK
  BY DEF LoopsInv
<1> QED BY <1>1, LoopsInvariant, PTL

\* No check that a scan or a fetch makes necessary is forgotten (scan_loop,
\* check_loop and fetch_loop of src/main.rs).
THEOREM ChecksAreRemembered == Spec => []NoCheckForgotten
<1>1. LoopsInv => NoCheckForgotten
  BY DEF LoopsInv
<1> QED BY <1>1, LoopsInvariant, PTL

\* No first fetch of a new repository is forgotten.
THEOREM FetchesAreRemembered == Spec => []NoFetchForgotten
<1>1. LoopsInv => NoFetchForgotten
  BY DEF LoopsInv
<1> QED BY <1>1, LoopsInvariant, PTL
-----------------------------------------------------------------------------
(* The loops cannot keep each other awake.                                 *)

\* The times l will still wake without another tick, and whether it is awake.
Wakes(l) == due[l] + (IF l \in Notified /\ permit[l] THEN 1 ELSE 0)
Works(l) == IF l \in busy THEN 1 ELSE 0

\* What is left to do before all sleep.  A wake-up weighs more than the pass it begins,
\* and a pass more than the wake-ups it ends with.
Energy ==
    8 * Wakes("scan") + 7 * Works("scan")
    + 4 * Wakes("fetch") + 3 * Works("fetch")
    + 2 * Wakes("check") + Works("check")

\* While no interval elapses and the process is not restarted, whenever a loop begins or
\* ends a pass, and whenever it spends a wake-up, there is less left to do; nothing else
\* makes it more.
RunDownStep ==
    ~Restart /\ (\A l \in Loop : ~Tick(l)) =>
        /\ Energy' <= Energy
        /\ busy' # busy \/ due' # due \/ (\E l \in Notified : permit[l] /\ ~permit'[l])
              => Energy' < Energy

LEMMA CountsType ==
    ASSUME LoopsTypeOK, NEW l \in Loop
    PROVE  Wakes(l) \in Nat /\ Works(l) \in {0, 1}
BY LoopsAssumption DEF LoopsTypeOK, Wakes, Works, LoopsAssumption

\* Waking spends one of the wake-ups of the loop that wakes, and none of another.
LEMMA WakeSpends ==
    ASSUME LoopsTypeOK, NEW l \in Loop, Wake(l)
    PROVE  /\ Wakes(l)' = Wakes(l) - 1
           /\ \A k \in Loop \ {l} : Wakes(k)' = Wakes(k)
<1> USE LoopsAssumption DEF LoopsAssumption, LoopsTypeOK, Wake, Wakes
<1>1. CASE due[l] > 0 /\ due' = [due EXCEPT ![l] = @ - 1] /\ permit' = permit
  BY <1>1
<1>2. CASE /\ l \in Notified
           /\ permit[l]
           /\ permit' = [permit EXCEPT ![l] = FALSE]
           /\ due' = due
  BY <1>2
<1> QED BY <1>1, <1>2

\* A notification adds at most one wake-up, however often it is sent.
LEMMA NotifyAdds ==
    ASSUME LoopsTypeOK, due' = due, permit' \in [Notified -> BOOLEAN], NEW l \in Loop
    PROVE  /\ Wakes(l)' <= Wakes(l) + 1
           /\ l \notin Notified \/ permit'[l] = permit[l] => Wakes(l)' = Wakes(l)
BY LoopsAssumption DEF LoopsTypeOK, Wakes, LoopsAssumption

LEMMA EnergyFalls ==
    ASSUME LoopsTypeOK, LoopsTypeOK', Next, ~Restart, \A l \in Loop : ~Tick(l)
    PROVE  \/ Energy' < Energy
           \/ Energy' = Energy /\ UNCHANGED <<busy, due, permit>>
<1> DEFINE Falls == Energy' < Energy
<1>a. /\ \A l \in Loop : Wakes(l) \in Nat /\ Works(l) \in {0, 1}
      /\ \A l \in Loop : Wakes(l)' \in Nat /\ Works(l)' \in {0, 1}
  BY CountsType, LoopsAssumption DEF LoopsTypeOK, Wakes, Works, LoopsAssumption
<1>b. Notified = {"check", "fetch"} /\ Loop = {"scan", "check", "fetch"}
  BY DEF Loop, Notified
<1>1. CASE StartScan
  <2>1. /\ Wakes("scan")' = Wakes("scan") - 1
        /\ Wakes("fetch")' = Wakes("fetch") /\ Wakes("check")' = Wakes("check")
    BY <1>1, <1>b, WakeSpends DEF StartScan
  <2>2. /\ Works("fetch")' = Works("fetch") /\ Works("check")' = Works("check")
        /\ Works("scan") = 0
    BY <1>1, <1>b, WakeFacts DEF StartScan, Works
  <2> QED BY <2>1, <2>2, <1>a, <1>b DEF Energy
<1>2. CASE EndScan
  <2>1. /\ Wakes("scan")' = Wakes("scan")
        /\ Wakes("fetch")' <= Wakes("fetch") + 1 /\ Wakes("check")' <= Wakes("check") + 1
    BY <1>2, <1>b, NotifyAdds DEF EndScan
  <2>2. /\ Works("fetch")' = Works("fetch") /\ Works("check")' = Works("check")
        /\ Works("scan") = 1 /\ Works("scan")' = 0
    BY <1>2, <1>b DEF EndScan, Works
  <2> QED BY <2>1, <2>2, <1>a, <1>b DEF Energy
<1>3. CASE StartCheck \/ FailCheck
  <2>1. /\ Wakes("check")' = Wakes("check") - 1
        /\ Wakes("fetch")' = Wakes("fetch") /\ Wakes("scan")' = Wakes("scan")
    BY <1>3, <1>b, WakeSpends DEF StartCheck, FailCheck
  <2>2. /\ Works("fetch")' = Works("fetch") /\ Works("scan")' = Works("scan")
        /\ Works("check") = 0
    BY <1>3, <1>b, WakeFacts DEF StartCheck, FailCheck, Works
  <2> QED BY <2>1, <2>2, <1>a, <1>b DEF Energy
<1>4. CASE EndCheck
  <2>1. \A l \in Loop : Wakes(l)' = Wakes(l)
    BY <1>4 DEF EndCheck, Wakes
  <2>2. /\ Works("fetch")' = Works("fetch") /\ Works("scan")' = Works("scan")
        /\ Works("check") = 1 /\ Works("check")' = 0
    BY <1>4 DEF EndCheck, Works
  <2> QED BY <2>1, <2>2, <1>a, <1>b DEF Energy
<1>5. CASE StartFetch \/ FailFetch
  <2>1. /\ Wakes("fetch")' = Wakes("fetch") - 1
        /\ Wakes("check")' = Wakes("check") /\ Wakes("scan")' = Wakes("scan")
    BY <1>5, <1>b, WakeSpends DEF StartFetch, FailFetch
  <2>2. /\ Works("check")' = Works("check") /\ Works("scan")' = Works("scan")
        /\ Works("fetch") = 0
    BY <1>5, <1>b, WakeFacts DEF StartFetch, FailFetch, Works
  <2> QED BY <2>1, <2>2, <1>a, <1>b DEF Energy
<1>6. CASE EndFetch
  <2>1. /\ Wakes("scan")' = Wakes("scan") /\ Wakes("fetch")' = Wakes("fetch")
        /\ Wakes("check")' <= Wakes("check") + 1
    <3>1. permit' \in [Notified -> BOOLEAN] /\ due' = due
      BY <1>6 DEF EndFetch, LoopsTypeOK
    <3>2. permit'["fetch"] = permit["fetch"]
      BY <1>6, <1>b DEF EndFetch, LoopsTypeOK
    <3> QED BY <3>1, <3>2, <1>b, NotifyAdds
  <2>2. /\ Works("check")' = Works("check") /\ Works("scan")' = Works("scan")
        /\ Works("fetch") = 1 /\ Works("fetch")' = 0
    BY <1>6 DEF EndFetch, Works
  <2> QED BY <2>1, <2>2, <1>a, <1>b DEF Energy
<1>7. ASSUME NEW p \in Repos, CheckTask(p) \/ FetchDone(p)
      PROVE  Energy' = Energy /\ UNCHANGED <<busy, due, permit>>
  <2>1. UNCHANGED <<busy, due, permit>>
    BY <1>7 DEF CheckTask, Inspect, Save, LoseStatus, FetchDone
  <2> QED BY <2>1 DEF Energy, Wakes, Works
<1> QED BY <1>1, <1>2, <1>3, <1>4, <1>5, <1>6, <1>7 DEF Next

\* "this service is idle the vast majority of the time" (src/main.rs:27): the step that
\* Quiesces rests on.  The notifications of the three loops make no circle, so what one
\* tick sets off is bounded: at most Energy beginnings and ends of passes, and then sleep.
THEOREM LoopsRunDown ==
    Spec => /\ [](Energy \in Nat /\ (Energy = 0 => busy = {}))
            /\ [][RunDownStep]_vars
<1>1. ASSUME LoopsTypeOK PROVE Energy \in Nat /\ (Energy = 0 => busy = {})
  <2>1. \A l \in Loop : Wakes(l) \in Nat /\ Works(l) \in {0, 1}
    BY <1>1, CountsType
  <2>2. Energy \in Nat
    BY <2>1, LoopNames DEF Energy
  <2>3. ASSUME Energy = 0 PROVE busy = {}
    <3>1. Works("scan") = 0 /\ Works("fetch") = 0 /\ Works("check") = 0
      BY <2>1, <2>3, LoopNames DEF Energy
    <3>2. busy \subseteq Loop
      BY <1>1 DEF LoopsTypeOK, Started
    <3> QED BY <3>1, <3>2 DEF Works, Loop
  <2> QED BY <2>2, <2>3
<1>2. ASSUME LoopsTypeOK, LoopsTypeOK', Next PROVE RunDownStep
  <2>1. Energy \in Nat /\ Energy' \in Nat
    <3>1. LoopsTypeOK' => (Energy \in Nat)'
      BY <1>1, PTL
    <3> QED BY <1>1, <1>2, <3>1
  <2> QED BY <1>2, <2>1, EnergyFalls DEF RunDownStep
<1>3. LoopsTypeOK => Energy \in Nat /\ (Energy = 0 => busy = {})
  BY <1>1
<1>4. LoopsTypeOK /\ LoopsTypeOK' /\ [Next]_vars => [RunDownStep]_vars
  BY <1>2
<1> QED BY <1>3, <1>4, LoopsTypeCorrect, PTL DEF Spec
=============================================================================
