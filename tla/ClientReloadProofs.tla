--------------------------- MODULE ClientReloadProofs ---------------------------
(***************************************************************************)
(* What the operators of ClientReload do to the types of its variables,    *)
(* how far a reload gets that no other one overlaps, and what becomes of   *)
(* replies that have been overtaken, for the proofs about the two clients. *)
(***************************************************************************)
EXTENDS ClientReload, TLAPS

At == {"idle", "ping", "post", "summary", "repos", "config"}
Triggers == {"none", "check", "scan", "restart"}

\* The sentinel is no revision, and revisions are ordered like numbers.
LEMMA RevisionFacts ==
    /\ Revisions \subseteq Nat
    /\ None \in Int /\ None \notin Revisions
    /\ \A v \in Revisions : None <= v
BY ClientReloadAssumption DEF Revisions, None, ClientReloadAssumption

LEMMA IdleType == Idle \in Reload /\ Idle.at = "idle" /\ Idle.trigger = "none" /\ Idle.reply = None
BY ClientReloadAssumption DEF Idle, Reload, Revisions, ClientReloadAssumption

LEMMA InitReload == ReloadInit => ReloadTypeOK
<1> SUFFICES ASSUME ReloadInit PROVE ReloadTypeOK
  OBVIOUS
<1>1. task \in [Tasks -> Reload]
  BY IdleType DEF ReloadInit
<1>2. faults \in 0 .. MaxFaults
  BY ClientReloadAssumption DEF ReloadInit, ClientReloadAssumption
<1> QED BY <1>1, <1>2 DEF ReloadInit, ReloadTypeOK

\* What an answer makes of its reload.
Answered(t) ==
    [task[t] EXCEPT !.reply = board, !.answered = IF task[t].at = "post" THEN board ELSE @]

LEMMA AnswerTask ==
    ASSUME ReloadTypeOK, NEW t \in Tasks, Answer(t)
    PROVE  /\ task' = [task EXCEPT ![t] = Answered(t)]
           /\ task[t].reply = None /\ task[t].at \in {"post", "summary", "repos"}
           /\ UNCHANGED <<board, summary, repos, connectionError, faults>>
BY DEF Answer, Answered, ReloadTypeOK, Reload

\* A step of the service.
LEMMA ServiceType ==
    ASSUME ReloadTypeOK, Save \/ \E t \in Tasks : Answer(t)
    PROVE  /\ ReloadTypeOK'
           /\ board' >= board
           /\ UNCHANGED <<summary, repos, connectionError, faults>>
           /\ \A t \in Tasks : /\ task'[t].at = task[t].at
                               /\ task'[t].trigger = task[t].trigger
                               /\ task'[t].reply \in {task[t].reply, board'}
<1> USE ClientReloadAssumption DEF ClientReloadAssumption, Revisions
<1>1. CASE Save
  BY <1>1 DEF Save, ReloadTypeOK
<1>2. ASSUME NEW t \in Tasks, Answer(t)
      PROVE  /\ ReloadTypeOK'
             /\ board' >= board
             /\ UNCHANGED <<summary, repos, connectionError, faults>>
             /\ \A u \in Tasks : /\ task'[u].at = task[u].at
                                 /\ task'[u].trigger = task[u].trigger
                                 /\ task'[u].reply \in {task[u].reply, board'}
  <2>1. task \in [Tasks -> Reload] /\ board \in 0 .. MaxRevisions
    BY DEF ReloadTypeOK
  <2>2. /\ task' = [task EXCEPT ![t] = Answered(t)]
        /\ UNCHANGED <<board, summary, repos, connectionError, faults>>
    BY <1>2, <2>1, AnswerTask
  <2>3. /\ Answered(t) \in Reload
        /\ Answered(t).at = task[t].at /\ Answered(t).trigger = task[t].trigger
        /\ Answered(t).reply = board
    BY <2>1 DEF Answered, Reload
  <2>4. task' \in [Tasks -> Reload]
    BY <2>1, <2>2, <2>3
  <2>5. \A u \in Tasks : /\ task'[u].at = task[u].at
                         /\ task'[u].trigger = task[u].trigger
                         /\ task'[u].reply \in {task[u].reply, board'}
    BY <2>1, <2>2, <2>3
  <2> QED BY <2>1, <2>2, <2>4, <2>5 DEF ReloadTypeOK
<1> QED BY <1>1, <1>2

\* A reload begins.
LEMMA BeginType ==
    ASSUME ReloadTypeOK, NEW t \in Tasks, NEW at \in At, NEW trigger \in Triggers,
           NEW withList \in BOOLEAN, BeginAt(t, at, trigger, withList), UNCHANGED connectionError
    PROVE  /\ ReloadTypeOK'
           /\ task[t].at = "idle" /\ task'[t].at = at /\ task'[t].trigger = trigger
           /\ task'[t].reply = None
           /\ \A u \in Tasks \ {t} : /\ task'[u].at = task[u].at
                                     /\ task'[u].trigger = task[u].trigger
                                     /\ task'[u].reply = task[u].reply
           /\ UNCHANGED <<board, summary, repos, faults>>
<1> DEFINE new == [at |-> at, trigger |-> trigger, list |-> withList, reply |-> None,
                   answered |-> None, alone |-> \A v \in Tasks : ~Running(v)]
<1>1. /\ task' = [u \in Tasks |-> IF u = t THEN new
                                  ELSE [task[u] EXCEPT !.alone = FALSE]]
      /\ ~Running(t)
      /\ UNCHANGED <<board, summary, repos, faults>>
  BY DEF BeginAt
<1>2. new \in Reload
  BY DEF Reload, At, Triggers, ReloadTypeOK
<1> HIDE DEF new
<1>3. task' \in [Tasks -> Reload]
  <2>1. \A r \in Reload : [r EXCEPT !.alone = FALSE] \in Reload
    BY DEF Reload
  <2>2. \A u \in Tasks : task[u] \in Reload
    BY DEF ReloadTypeOK
  <2> QED BY <1>1, <1>2, <2>1, <2>2
<1> USE DEF new
<1> QED BY <1>1, <1>3 DEF ReloadTypeOK, Running, Reload

\* A reload goes on, or it ends.
GoesOn(t) ==
    /\ task'[t].at \in At \ {"idle", "ping", "post"}
    /\ task'[t].trigger = task[t].trigger
    /\ task'[t].reply = None

LEMMA DeliverType ==
    ASSUME ReloadTypeOK, NEW t \in Tasks, Receive(t) \/ ReceiveConfig(t) \/ Fail(t)
    PROVE  /\ ReloadTypeOK'
           /\ task[t].at \in At \ {"idle", "ping"}
           /\ GoesOn(t) \/ task'[t] = Idle
           /\ \A u \in Tasks \ {t} : task'[u] = task[u]
           /\ UNCHANGED board
<1>1. task[t] \in Reload /\ task[t].reply \in Revisions \cup {None}
  BY DEF ReloadTypeOK, Reload
<1>2. ASSUME NEW at \in At \ {"idle", "ping", "post"}, GoOn(t, at)
      PROVE  /\ task' \in [Tasks -> Reload]
             /\ connectionError' \in BOOLEAN
             /\ GoesOn(t)
             /\ \A u \in Tasks \ {t} : task'[u] = task[u]
  <2> DEFINE new == [task[t] EXCEPT !.at = at, !.reply = None]
  <2>1. task' = [task EXCEPT ![t] = new] /\ UNCHANGED connectionError
    BY <1>2 DEF GoOn, ReloadTypeOK
  <2>2. /\ new \in Reload
        /\ new.at = at /\ new.trigger = task[t].trigger /\ new.reply = None
    BY <1>1 DEF Reload, At
  <2> HIDE DEF new
  <2> QED BY <2>1, <2>2 DEF GoesOn, ReloadTypeOK
<1>3. ASSUME End(t)
      PROVE  /\ task' \in [Tasks -> Reload]
             /\ connectionError' \in BOOLEAN
             /\ task'[t] = Idle
             /\ \A u \in Tasks \ {t} : task'[u] = task[u]
  BY <1>3, IdleType DEF End, ReloadTypeOK
<1>4. CASE Receive(t)
  <2>1. CASE task[t].at = "post" /\ GoOn(t, "summary") /\ UNCHANGED <<summary, repos>>
    BY <1>4, <2>1, <1>2 DEF Receive, ReloadTypeOK, At
  <2>2. CASE /\ task[t].at = "summary"
             /\ summary' = task[t].reply /\ UNCHANGED repos
             /\ IF task[t].list THEN GoOn(t, "repos") ELSE End(t)
    BY <1>4, <2>2, <1>1, <1>2, <1>3 DEF Receive, ReloadTypeOK, At
  <2>3. CASE /\ task[t].at = "repos"
             /\ repos' = task[t].reply /\ UNCHANGED summary
             /\ IF ReadsConfig THEN GoOn(t, "config") ELSE End(t)
    BY <1>4, <2>3, <1>1, <1>2, <1>3 DEF Receive, ReloadTypeOK, At
  <2> QED BY <1>4, <2>1, <2>2, <2>3 DEF Receive
<1>5. CASE ReceiveConfig(t)
  BY <1>5, <1>3 DEF ReceiveConfig, ReloadTypeOK, At
<1>6. CASE Fail(t)
  BY <1>6, IdleType, ClientReloadAssumption
     DEF Fail, ReloadTypeOK, At, ClientReloadAssumption
<1> QED BY <1>4, <1>5, <1>6

-----------------------------------------------------------------------------
(* A reload that has the client to itself.                                 *)

\* How far a reload has got, if nobody else applies replies: what it has was served, what it
\* shows is what it has, in this order, and since its trigger was answered all of it is no
\* older than what was stored then.
InStep(t) ==
    LET r == task[t] IN
    /\ r.reply # None => r.reply <= board
    /\ r.trigger \in {"check", "scan"} =>
          /\ r.at = "summary" \/ (r.at = "post" /\ r.reply # None) =>
                r.answered # None /\ r.answered <= board
          /\ r.at = "summary" /\ r.reply # None => r.answered <= r.reply
          /\ r.at \in {"repos", "config"} => r.answered # None /\ r.answered <= summary
    /\ r.at \in {"repos", "config"} => summary <= board
    /\ r.at = "repos" /\ r.reply # None => summary <= r.reply
    /\ r.at = "config" => summary <= repos

AloneInv ==
    \A t \in Tasks : task[t].alone => InStep(t) /\ \A u \in Tasks \ {t} : ~Running(u)

\* Everything that InStep compares is a number.
LEMMA Numbers ==
    ASSUME ReloadTypeOK
    PROVE  /\ board \in Int /\ board # None
           /\ summary \in Int /\ repos \in Int /\ None \in Int
           /\ \A t \in Tasks : task[t].reply \in Int /\ task[t].answered \in Int
<1>1. board \in Int /\ board # None
  BY RevisionFacts DEF ReloadTypeOK
<1>2. \A t \in Tasks : /\ task[t].reply \in Revisions \cup {None}
                       /\ task[t].answered \in Revisions \cup {None}
  BY DEF ReloadTypeOK, Reload
<1>3. summary \in Revisions \cup {None} /\ repos \in Revisions \cup {None}
  BY DEF ReloadTypeOK
<1>4. \A v \in Revisions \cup {None} : v \in Int
  BY RevisionFacts
<1> QED BY <1>1, <1>2, <1>3, <1>4, RevisionFacts

\* The service stores something or answers.
LEMMA ServiceInStep ==
    ASSUME ReloadTypeOK, AloneInv, Save \/ \E t \in Tasks : Answer(t)
    PROVE  AloneInv'
<1>1. CASE Save
  <2>1. board' = board + 1 /\ UNCHANGED <<task, summary, repos>>
    BY <1>1 DEF Save
  <2>2. ASSUME NEW t \in Tasks, InStep(t) PROVE InStep(t)'
    <3>1. task[t].reply \in Int /\ task[t].answered \in Int
      BY Numbers
    <3> QED BY <2>1, <2>2, <3>1, Numbers DEF InStep
  <2> QED BY <2>1, <2>2 DEF AloneInv, Running
<1>2. ASSUME NEW t \in Tasks, Answer(t) PROVE AloneInv'
  <2>1. /\ task' = [task EXCEPT ![t] = Answered(t)] /\ task \in [Tasks -> Reload]
        /\ task[t].reply = None /\ task[t].at \in {"post", "summary", "repos"}
        /\ UNCHANGED <<board, summary, repos>>
    BY <1>2, AnswerTask DEF ReloadTypeOK
  <2>2. /\ task'[t].reply = board
        /\ task'[t].answered = IF task[t].at = "post" THEN board ELSE task[t].answered
        /\ task'[t].at = task[t].at /\ task'[t].trigger = task[t].trigger
        /\ task'[t].alone = task[t].alone
        /\ \A u \in Tasks \ {t} : task'[u] = task[u]
    BY <2>1 DEF Answered, Reload
  <2>3. Running(t) /\ \A u \in Tasks : Running(u)' <=> Running(u)
    BY <2>1, <2>2 DEF Running
  <2>4. task[t].alone => InStep(t)'
    <3>1. task[t].alone => InStep(t)
      BY DEF AloneInv
    <3> QED BY <2>1, <2>2, <3>1, Numbers DEF InStep
  <2>5. \A u \in Tasks \ {t} : ~task[u].alone
    BY <2>3 DEF AloneInv
  <2> QED BY <2>2, <2>3, <2>4, <2>5 DEF AloneInv
<1> QED BY <1>1, <1>2

\* A reload begins with nothing to compare; all others are not alone any more.
LEMMA BeginInStep ==
    ASSUME ReloadTypeOK, AloneInv, NEW t \in Tasks, NEW at \in {"ping", "post", "summary"},
           NEW trigger \in Triggers, NEW withList \in BOOLEAN, BeginAt(t, at, trigger, withList),
           at = "summary" => trigger = "none"
    PROVE  AloneInv'
<1>1. /\ task' = [u \in Tasks |->
                     IF u = t
                     THEN [at |-> at, trigger |-> trigger, list |-> withList, reply |-> None,
                           answered |-> None, alone |-> \A v \in Tasks : ~Running(v)]
                     ELSE [task[u] EXCEPT !.alone = FALSE]]
      /\ task \in [Tasks -> Reload]
  BY DEF BeginAt, ReloadTypeOK
<1>2. \A u \in Tasks \ {t} : ~task'[u].alone /\ task'[u].at = task[u].at
  BY <1>1 DEF Reload
<1>3. /\ task'[t].at = at /\ task'[t].trigger = trigger /\ task'[t].reply = None
      /\ task'[t].alone => \A v \in Tasks : ~Running(v)
  BY <1>1
<1>4. InStep(t)'
  BY <1>3 DEF InStep
<1> QED BY <1>2, <1>3, <1>4 DEF AloneInv, Running

\* A reply is applied, or a request fails.
LEMMA DeliverInStep ==
    ASSUME ReloadTypeOK, AloneInv, NEW t \in Tasks, Receive(t) \/ ReceiveConfig(t) \/ Fail(t)
    PROVE  /\ AloneInv'
           /\ Ends(t) /\ task[t].alone /\ task[t].list /\ ~connectionError' =>
                 /\ task[t].trigger \in {"check", "scan"} =>
                       task[t].answered # None /\ summary' >= task[t].answered
                 /\ repos' >= summary'
<1>1. /\ ReloadTypeOK' /\ Running(t) /\ UNCHANGED board
      /\ \A u \in Tasks \ {t} : task'[u] = task[u]
  BY DeliverType DEF Running
<1>2. \A u \in Tasks \ {t} : ~task'[u].alone
  BY <1>1 DEF AloneInv
<1>3. task \in [Tasks -> Reload] /\ task[t] \in Reload
  BY DEF ReloadTypeOK
<1>4. ASSUME NEW at, GoOn(t, at)
      PROVE  /\ task'[t].at = at /\ task'[t].reply = None
             /\ task'[t].trigger = task[t].trigger /\ task'[t].answered = task[t].answered
             /\ task'[t].alone = task[t].alone
  BY <1>3, <1>4 DEF GoOn, Reload
<1>5. ASSUME task'[t] = Idle PROVE ~task'[t].alone
  BY <1>5 DEF Idle
<1>6. ASSUME End(t) \/ Fail(t) PROVE task'[t] = Idle
  BY <1>3, <1>6 DEF End, Fail
<1>7. SUFFICES
        /\ task'[t].alone => InStep(t)'
        /\ task'[t].alone => task[t].alone
        /\ Ends(t) /\ task[t].alone /\ task[t].list /\ ~connectionError' =>
              /\ task[t].trigger \in {"check", "scan"} =>
                    task[t].answered # None /\ task[t].answered <= summary'
              /\ summary' <= repos'
  <2>1. \A u \in Tasks \ {t} : task[t].alone => ~Running(u)'
    BY <1>1 DEF AloneInv, Running
  <2> QED BY <1>1, <1>2, <2>1, Numbers DEF AloneInv
<1>8. task[t].alone => InStep(t)
  BY DEF AloneInv
<1>9. CASE Receive(t)
  <2>1. CASE task[t].at = "post" /\ GoOn(t, "summary") /\ UNCHANGED <<summary, repos>>
    BY <1>1, <1>4, <1>8, <1>9, <2>1, Numbers DEF InStep, Receive, Ends
  <2>2. CASE /\ task[t].at = "summary"
             /\ summary' = task[t].reply /\ UNCHANGED repos
             /\ IF task[t].list THEN GoOn(t, "repos") ELSE End(t)
    <3>1. CASE task[t].list
      BY <1>1, <1>4, <1>8, <1>9, <2>2, <3>1, Numbers DEF InStep, Receive, Ends
    <3>2. CASE ~task[t].list
      BY <1>5, <1>6, <2>2, <3>2
    <3> QED BY <3>1, <3>2
  <2>3. CASE /\ task[t].at = "repos"
             /\ repos' = task[t].reply /\ UNCHANGED summary
             /\ IF ReadsConfig THEN GoOn(t, "config") ELSE End(t)
    <3>1. CASE ReadsConfig
      BY <1>1, <1>4, <1>8, <1>9, <2>3, <3>1, Numbers DEF InStep, Receive, Ends
    <3>2. CASE ~ReadsConfig
      BY <1>5, <1>6, <1>8, <1>9, <2>3, <3>2, Numbers DEF InStep, Receive
    <3> QED BY <3>1, <3>2
  <2> QED BY <1>9, <2>1, <2>2, <2>3 DEF Receive
<1>10. CASE ReceiveConfig(t)
  BY <1>5, <1>6, <1>8, <1>10, Numbers DEF InStep, ReceiveConfig
<1>11. CASE Fail(t)
  BY <1>5, <1>6, <1>11 DEF Fail
<1> QED BY <1>9, <1>10, <1>11

\* What AloneIsFresh says of a step.
FreshEnd ==
    \A t \in Tasks :
        Ends(t) /\ task[t].alone /\ task[t].list /\ ~connectionError' =>
            /\ task[t].trigger \in {"check", "scan"} =>
                  task[t].answered # None /\ summary' >= task[t].answered
            /\ repos' >= summary'

-----------------------------------------------------------------------------
(* Replies that have been overtaken by a later revision.                   *)

\* The requests of a kind that have been answered with what is no longer served.
Outdated(at) == {t \in Tasks : task[t].at = at /\ task[t].reply \notin {None, board}}
Coming == Outdated("post") \cup Outdated("summary") \cup Outdated("repos")

\* While the service stores nothing, no more outdated replies come up; without any, what is
\* shown of the current revision stays shown, and every reply that is applied
\* shows it.
SettleStep ==
    board' = board =>
        /\ Coming' \subseteq Coming
        /\ summary = board /\ Outdated("summary") = {} => summary' = board
        /\ repos = board /\ Outdated("repos") = {} => repos' = board
        /\ \A t \in Tasks \ Coming : Receive(t) =>
              /\ task[t].at = "summary" => summary' = board
              /\ task[t].at = "repos" => repos' = board

\* Nothing that is shown, or under way to it, is newer than what the service serves.
NoneNewer ==
    /\ summary <= board /\ repos <= board
    /\ \A t \in Tasks : task[t].reply <= board

LEMMA InitNoneNewer == ReloadInit => NoneNewer
<1> SUFFICES ASSUME ReloadInit PROVE NoneNewer
  OBVIOUS
<1>1. ReloadTypeOK /\ board \in Nat
  BY InitReload, RevisionFacts DEF ReloadInit, ReloadTypeOK
<1>2. \A t \in Tasks : task[t].reply = None
  BY IdleType DEF ReloadInit
<1> QED BY <1>1, <1>2 DEF ReloadInit, NoneNewer, None

LEMMA BoardIsARevision == ReloadTypeOK => board \in Nat /\ board # None
<1> SUFFICES ASSUME ReloadTypeOK PROVE board \in Nat /\ board # None
  OBVIOUS
<1>1. board \in Nat
  BY RevisionFacts DEF ReloadTypeOK
<1> QED BY <1>1 DEF None

\* A reply that is received is used up.
LEMMA ReceiveTakes ==
    ASSUME ReloadTypeOK, NEW t \in Tasks, Receive(t)
    PROVE  /\ task[t].at \in {"post", "summary", "repos"}
           /\ task[t].reply # None /\ task'[t].reply = None
<1>1. task[t].at \in {"post", "summary", "repos"} /\ task[t].reply # None
  BY DEF Receive
<1>2. task'[t].reply = None
  BY DeliverType, IdleType DEF GoesOn
<1> QED BY <1>1, <1>2

\* Steps that apply no reply.
LEMMA ServiceSettles ==
    ASSUME ReloadTypeOK, NoneNewer, Save \/ \E t \in Tasks : Answer(t)
    PROVE  NoneNewer' /\ SettleStep
<1>1. /\ ReloadTypeOK' /\ board' >= board /\ UNCHANGED <<summary, repos, connectionError, faults>>
      /\ \A t \in Tasks : task'[t].at = task[t].at /\ task'[t].reply \in {task[t].reply, board'}
  BY ServiceType
<1>2. board \in Int /\ board' \in Int
  BY <1>1, RevisionFacts DEF ReloadTypeOK
<1>3. NoneNewer'
  BY <1>1, <1>2, Numbers DEF NoneNewer
<1>4. SettleStep
  <2> SUFFICES ASSUME board' = board PROVE SettleStep
    BY DEF SettleStep
  <2>1. Coming' \subseteq Coming
    BY <1>1 DEF Coming, Outdated
  <2>2. \A t \in Tasks : ~Receive(t)
    BY <1>1, ReceiveTakes, BoardIsARevision
  <2> QED BY <1>1, <2>1, <2>2 DEF SettleStep
<1> QED BY <1>3, <1>4

\* A reload that begins, or that waits for the service to be back.
LEMMA AsideSettles ==
    ASSUME ReloadTypeOK, NoneNewer, NEW t \in Tasks, task[t].at \in {"idle", "ping"},
           task'[t].reply = None,
           \A u \in Tasks \ {t} : task'[u].at = task[u].at /\ task'[u].reply = task[u].reply,
           UNCHANGED <<board, summary, repos>>
    PROVE  NoneNewer' /\ SettleStep
<1>1. NoneNewer'
  BY BoardIsARevision DEF NoneNewer, None
<1>2. Coming' \subseteq Coming
  BY DEF Coming, Outdated
<1>3. \A u \in Tasks : ~Receive(u)
  BY ReceiveTakes
<1> QED BY <1>1, <1>2, <1>3 DEF SettleStep

\* A step that leaves the reloads and what is shown alone.
LEMMA StutterSettles ==
    ASSUME ReloadTypeOK, NoneNewer, UNCHANGED <<board, summary, repos, task>>
    PROVE  NoneNewer' /\ SettleStep
<1>1. NoneNewer' /\ Coming' = Coming
  BY DEF NoneNewer, Coming, Outdated
<1>2. \A u \in Tasks : ~Receive(u)
  BY ReceiveTakes
<1> QED BY <1>1, <1>2 DEF SettleStep

\* What the delivery of a reply does to what is shown.
LEMMA DeliverShows ==
    ASSUME NEW t \in Tasks, Receive(t) \/ ReceiveConfig(t) \/ Fail(t)
    PROVE  \/ UNCHANGED <<summary, repos>> /\ (Receive(t) => task[t].at \notin {"summary", "repos"})
           \/ /\ task[t].at = "summary" /\ task[t].reply # None
              /\ summary' = task[t].reply /\ repos' = repos
           \/ /\ task[t].at = "repos" /\ task[t].reply # None
              /\ repos' = task[t].reply /\ summary' = summary
BY DEF Receive, ReceiveConfig, Fail

LEMMA DeliverSettles ==
    ASSUME ReloadTypeOK, NoneNewer, NEW t \in Tasks, Receive(t) \/ ReceiveConfig(t) \/ Fail(t)
    PROVE  NoneNewer' /\ SettleStep
<1>1. /\ task'[t].reply = None
      /\ \A u \in Tasks \ {t} : task'[u] = task[u]
      /\ board' = board
  BY DeliverType, IdleType DEF GoesOn
<1>2. Coming' \subseteq Coming
  BY <1>1 DEF Coming, Outdated
<1>3. NoneNewer'
  BY <1>1, DeliverShows, BoardIsARevision DEF NoneNewer, None
<1>4. ASSUME NEW u \in Tasks, Receive(u) PROVE u = t
  BY <1>1, <1>4, ReceiveTakes
<1>5. SettleStep
  BY <1>1, <1>2, <1>4, DeliverShows DEF SettleStep, Coming, Outdated
<1> QED BY <1>3, <1>5
=============================================================================
