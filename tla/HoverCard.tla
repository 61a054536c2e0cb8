------------------------------- MODULE HoverCard -------------------------------
(***************************************************************************)
(* What the menu-bar client shows for a few seconds: the hover card of a   *)
(* repository with its cache (details(for:) of AppModel.swift, the task of *)
(* RepoHoverCard.swift, GET /repos/{id}/details of src/api.rs), and the    *)
(* outcome of a retry of the failed fetches (retryFailedFetches), which    *)
(* empties that cache.                                                     *)
(*                                                                         *)
(* The cache has an entry for each repository and a row shows one card, so *)
(* one repository stands for all.  Details are kept as their age, the time *)
(* since the service read them: the properties are about nothing else.     *)
(* Code between two awaits is one step, as it runs on the main actor.      *)
(***************************************************************************)
EXTENDS Naturals, FiniteSets, FiniteSetsExt

CONSTANTS
    DetailsTTL,   \* detailsTTL, in ticks
    Limit,        \* timeoutIntervalForRequest of URLSession.shared
    MessageTime,  \* how long the outcome of a retry is shown
    Messages,     \* the outcomes of a retry
    Nil,          \* no value
    MaxTimers     \* bound on the timers that are pending when a retry begins

ASSUME HoverCardAssumption ==
    /\ DetailsTTL \in Nat /\ Limit \in Nat /\ MessageTime \in Nat /\ MaxTimers \in Nat
    /\ Nil \notin Nat /\ Nil \notin Messages
    /\ Nil \notin [at : Nat, age : Nat] \cup [sent : Nat, age : Nat \cup {Nil}]

VARIABLES
    (* The card. *)
    card,          \* what it shows
    filled,        \* the age of its details when they were shown
    request,       \* its request: time since it was sent, age of what the service has read
    detailsCache,  \* the entry: time since it was made, age of the details
    outdated,      \* history: there are details about from before the last retry
    (* The retry. *)
    isRetryingFetch,
    retrying,      \* where retryFailedFetches is
    retryMessage,
    timers,        \* the tasks that sleep, and then hide the message they have captured
    lasted,        \* history: time since the outcome was last set or its timer begun, up to MessageTime
    twin           \* history: the message was equal to that of a timer when it was set

cardVars == <<card, filled, request, detailsCache, outdated>>
retryVars == <<isRetryingFetch, retrying, retryMessage, timers, lasted, twin>>
hoverVars == <<cardVars, retryVars>>

MaxAge == DetailsTTL + Limit

HoverCardTypeOK ==
    /\ card \in {"closed", "reading", "details", "failed"}
    /\ filled \in Nat
    /\ request \in [sent : 0 .. Limit, age : Nat \cup {Nil}] \cup {Nil}
    /\ detailsCache \in [at : 0 .. DetailsTTL, age : Nat] \cup {Nil}
    /\ outdated \in SUBSET {"request", "cache"}
    /\ isRetryingFetch \in BOOLEAN
    /\ retrying \in {"no", "posting", "reloading"}
    /\ retryMessage \in Messages \cup {Nil}
    /\ timers \in SUBSET [shown : Messages \cup {Nil}, left : 0 .. MessageTime]
    /\ lasted \in 0 .. MessageTime
    /\ twin \in BOOLEAN

HoverInit ==
    /\ card = "closed" /\ filled = 0 /\ request = Nil /\ detailsCache = Nil /\ outdated = {}
    /\ isRetryingFetch = FALSE /\ retrying = "no" /\ retryMessage = Nil /\ timers = {}
    /\ lasted = 0 /\ twin = FALSE

-----------------------------------------------------------------------------
(* Time.                                                                   *)

Older(a) == IF a = Nil THEN Nil ELSE a + 1

\* A request does not outlive its limit.  An entry that has expired is as good as none, and
\* is no longer followed.
Tick ==
    /\ request # Nil => request.sent < Limit
    /\ request' = IF request = Nil THEN Nil
                  ELSE [sent |-> request.sent + 1, age |-> Older(request.age)]
    /\ detailsCache' = IF detailsCache = Nil THEN Nil
                       ELSE IF detailsCache.at = DetailsTTL THEN detailsCache
                       ELSE [at |-> detailsCache.at + 1, age |-> detailsCache.age + 1]
    /\ timers' = {[t EXCEPT !.left = IF @ > 0 THEN @ - 1 ELSE 0] : t \in timers}
    /\ lasted' = Min({lasted + 1, MessageTime})
    /\ UNCHANGED <<card, filled, outdated, isRetryingFetch, retrying, retryMessage, twin>>

-----------------------------------------------------------------------------
(* The card.                                                               *)

Cached == detailsCache # Nil /\ detailsCache.at < DetailsTTL

\* Variant: a hit renews the entry.
OpenRenewing ==
    /\ card = "closed"
    /\ IF Cached
       THEN /\ card' = "details"
            /\ filled' = detailsCache.age
            /\ detailsCache' = [detailsCache EXCEPT !.at = 0]
            /\ UNCHANGED request
       ELSE /\ card' = "reading"
            /\ request' = [sent |-> 0, age |-> Nil]
            /\ UNCHANGED <<filled, detailsCache>>
    /\ outdated' = outdated \ {"request"}
    /\ UNCHANGED retryVars

\* The card appears, and asks for details.
Open ==
    /\ card = "closed"
    /\ IF Cached
       THEN card' = "details" /\ filled' = detailsCache.age /\ UNCHANGED request
       ELSE card' = "reading" /\ request' = [sent |-> 0, age |-> Nil] /\ UNCHANGED filled
    /\ outdated' = outdated \ {"request"}
    /\ UNCHANGED <<detailsCache, retryVars>>

\* get_repo_details finds the row and reads the repository on the blocking pool; an error
\* of reading is part of the details.
Serve ==
    /\ request # Nil /\ request.age = Nil
    /\ request' = [request EXCEPT !.age = 0]
    /\ UNCHANGED <<card, filled, detailsCache, outdated, retryVars>>

\* The reply is cached and shown.
Reply ==
    /\ request # Nil /\ request.age # Nil
    /\ detailsCache' = [at |-> 0, age |-> request.age]
    /\ card' = "details"
    /\ filled' = request.age
    /\ request' = Nil
    /\ outdated' = IF "request" \in outdated THEN {"cache"} ELSE {}
    /\ UNCHANGED retryVars

EndRequest ==
    /\ card' = "failed"
    /\ request' = Nil
    /\ UNCHANGED <<filled, detailsCache, outdated, retryVars>>

\* No such repository any more, an internal error, the service is gone.
CardFails == request # Nil /\ EndRequest

\* Variant: the limit is one on the pauses within a reply.
TimedOutWithin == request # Nil /\ request.sent = Limit /\ request.age # Nil /\ EndRequest

TimedOut == request # Nil /\ request.sent = Limit /\ EndRequest

\* The card closes; its task is cancelled, and with it the request.
Close ==
    /\ card # "closed"
    /\ card' = "closed"
    /\ request' = Nil
    /\ UNCHANGED <<filled, detailsCache, outdated, retryVars>>

-----------------------------------------------------------------------------
(* The retry.                                                              *)

\* The button is disabled while a retry is under way.
RetryFailedFetches ==
    /\ ~isRetryingFetch
    /\ Cardinality(timers) < MaxTimers
    /\ isRetryingFetch' = TRUE
    /\ retrying' = "posting"
    /\ UNCHANGED <<cardVars, retryMessage, timers, lasted, twin>>

\* POST /fetch/retry has an answer, has failed, or has taken 120 s; the cache is emptied.
PostEnds ==
    /\ retrying = "posting"
    /\ \E m \in Messages :
          /\ retryMessage' = m
          /\ twin' = (\E t \in timers : t.shown = m)
    /\ detailsCache' = Nil
    /\ outdated' = IF request # Nil /\ request.age # Nil THEN {"request"} ELSE {}
    /\ retrying' = "reloading"
    /\ lasted' = 0
    /\ UNCHANGED <<card, filled, request, isRetryingFetch, timers>>

\* Variant: what the timer is to hide is captured before the message is set.
ReloadEndsEarly ==
    /\ retrying = "reloading"
    /\ retrying' = "no"
    /\ isRetryingFetch' = FALSE
    /\ timers' = timers \cup {[shown |-> Nil, left |-> MessageTime]}
    /\ lasted' = 0
    /\ UNCHANGED <<cardVars, retryMessage, twin>>

\* The reload is over, with or without an error; the message has its time from now on.
ReloadEnds ==
    /\ retrying = "reloading"
    /\ retrying' = "no"
    /\ isRetryingFetch' = FALSE
    /\ timers' = timers \cup {[shown |-> retryMessage, left |-> MessageTime]}
    /\ lasted' = 0
    /\ UNCHANGED <<cardVars, retryMessage, twin>>

\* Variant: the timer hides whatever is shown.
TimerFiresBlindly(t) ==
    /\ t \in timers /\ t.left = 0
    /\ timers' = timers \ {t}
    /\ retryMessage' = Nil
    /\ UNCHANGED <<cardVars, isRetryingFetch, retrying, lasted, twin>>

\* A timer hides the message if it is (equal to) its own.
TimerFires(t) ==
    /\ t \in timers /\ t.left = 0
    /\ timers' = timers \ {t}
    /\ retryMessage' = IF retryMessage = t.shown THEN Nil ELSE retryMessage
    /\ UNCHANGED <<cardVars, isRetryingFetch, retrying, lasted, twin>>

-----------------------------------------------------------------------------
HoverNext ==
    \/ Tick
    \/ Open \/ Serve \/ Reply \/ CardFails \/ TimedOut \/ Close
    \/ RetryFailedFetches \/ PostEnds \/ ReloadEnds
    \/ \E t \in timers : TimerFires(t)

HoverSpec == HoverInit /\ [][HoverNext]_hoverVars

\* Time passes, requests end within their limits, timers fire.  The service need not
\* answer, and the user need not do anything.
HoverFairness ==
    /\ WF_hoverVars(Tick) /\ WF_hoverVars(TimedOut) /\ WF_hoverVars(PostEnds) /\ WF_hoverVars(ReloadEnds)
    /\ WF_hoverVars(\E t \in timers : TimerFires(t))

FairHoverSpec == HoverSpec /\ HoverFairness

-----------------------------------------------------------------------------
\* Moving back and forth over a row never makes its card older: what a card is filled with
\* was read at most DetailsTTL plus the time of one request ago.  This is also the longest
\* that details from before a retry can come back (see ClearedStaysClear).
CardIsRecent ==
    /\ card = "details" => filled <= MaxAge
    /\ Cached => detailsCache.age < MaxAge

\* "Couldn't load details." or the details: no card says "Reading changes..." for ever,
\* even if the service never answers.
CardSettles == card = "reading" ~> card # "reading"

\* The outcome of a retry is shown for its time, unless it is equal to an earlier one that
\* was about to be hidden: an earlier timer never hides a different message.
ShownInFull ==
    [][retryMessage # Nil /\ retryMessage' = Nil =>
          twin \/ (lasted = MessageTime /\ retrying # "reloading")]_hoverVars

\* If the user stops retrying, the button is enabled again and the message goes, whatever
\* timers overlapped.
RetrySettles ==
    <>[][~isRetryingFetch => ~isRetryingFetch']_hoverVars
        => <>[](~isRetryingFetch /\ retryMessage = Nil)

-----------------------------------------------------------------------------
(* What comments of the repository say, and the code does not do.          *)

\* "shown for a few seconds so a retry that changes nothing still visibly did something"
\* (AppModel.swift:22): as ShownInFull, without the exception.
ShownForSeconds ==
    [][retryMessage # Nil /\ retryMessage' = Nil =>
          lasted = MessageTime /\ retrying # "reloading"]_hoverVars

\* The cache is emptied because "fetch results change what the hover card shows"
\* (AppModel.swift:158): no card is filled with older details from then on.
ClearedStaysClear == "cache" \notin outdated
=============================================================================
