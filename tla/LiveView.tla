------------------------------- MODULE LiveView -------------------------------
(***************************************************************************)
(* What an open page of the dashboard, the list or the detail, shows of    *)
(* one deployment, and how it keeps up:                                    *)
(* the server announces what it has persisted on its event bus, one stream *)
(* per dashboard carries the events, the stream's client reconnects        *)
(* (packages/web/src/utils/sse-client.ts), the events patch and refetch    *)
(* the queries (packages/web/src/state/useGlobalQueryEvents.ts), and every *)
(* request goes through a cache of its own                                 *)
(* (packages/web/src/utils/sdk-adapter.ts, cache.ts).                      *)
(*                                                                         *)
(* The states a deployment goes through are numbered in their order;       *)
(* lastUpdated is that order.  The number after the last is its deletion.  *)
(***************************************************************************)
EXTENDS Naturals, Sequences

CONSTANTS
  MaxVersion,    \* bound on the states of the deployment
  Acts,          \* whether the operator acts on the deployment from this page
  MaxAttempts,   \* reconnectAttempts
  MaxTroubles    \* bound on streams lost, fetches failed and records not written

Unseen   == 0                \* a query, or a cache entry, without data
Versions == 1..MaxVersion
Gone     == MaxVersion + 1
Pages    == {"list", "detail"}

VARIABLES
  server,      \* what a request would answer
  announced,   \* the last state emitted on the bus
  events,      \* on their way in this dashboard's stream
  subscribed,  \* the bus feeds the stream
  client,      \* the connection state of the stream's client
  attempts,    \* reconnectAttempt
  connectedOnce,
  view,        \* the page, its query's data, and its fetch
  cache,       \* globalCache: the answer kept for its request
  stray,       \* a request whose fetch was started over, still on its way
  act,         \* the operator's own action, and the state it led to
  missed,      \* the dashboard may have missed something for good
  troubles

stream == <<events, subscribed, client, attempts, connectedOnce>>
vars == <<server, announced, stream, view, cache, stray, act, missed, troubles>>

Idle == [at |-> "idle", saw |-> Unseen, cached |-> FALSE]
Sent == [at |-> "sent", saw |-> Unseen, cached |-> FALSE]

(* The page opens: its query fetches, the stream connects.                  *)
Init ==
  /\ server = 1 /\ announced = 1
  /\ events = <<>> /\ subscribed = FALSE
  /\ client = "connecting" /\ attempts = 0 /\ connectedOnce = FALSE
  /\ view \in [page : Pages, data : {Unseen}, fetch : {Sent}]
  /\ cache = Unseen /\ stray = Idle
  /\ act = [at |-> "none", led |-> Unseen, crossed |-> FALSE]
  /\ missed = FALSE /\ troubles = 0

Trouble == troubles < MaxTroubles /\ troubles' = troubles + 1

(* A detail page whose deployment is gone is left; its query is removed.    *)
Mounted == ~ (view.page = "detail" /\ view.data = Gone)

-----------------------------------------------------------------------------
(* The server. *)
Change ==
  /\ server # Gone
  /\ server' \in {server + 1, Gone}
  /\ UNCHANGED <<announced, stream, view, cache, stray, act, missed, troubles>>

(* persistDeployment, or the end of a removal: the event carries what the   *)
(* record says when it is written.                                          *)
Emit ==
  /\ announced < server
  /\ announced' = server
  /\ events' = IF subscribed THEN Append(events, server) ELSE events
  /\ missed' = (missed \/ ~connectedOnce)
  /\ UNCHANGED <<server, subscribed, client, attempts, connectedOnce, view, cache, stray, act, troubles>>

(* The write throws; nobody is told.                                        *)
EmitNothing ==
  /\ announced < server /\ Trouble
  /\ announced' = server
  /\ missed' = TRUE
  /\ UNCHANGED <<server, stream, view, cache, stray, act>>

-----------------------------------------------------------------------------
(* The queries. *)

(* getWithCache: an answer that is kept is taken for the server's.          *)
Asked(kept) ==
  IF kept # Unseen THEN [at |-> "answered", saw |-> kept, cached |-> TRUE] ELSE Sent

(* invalidateQueries: a fetch in flight starts over, the first one does not.*)
Restarts(v) ==
  ~ (v.page = "detail" /\ v.data = Gone) /\ ~ (v.data = Unseen /\ v.fetch.at # "idle")

(* The request of a fetch that is dropped or started over runs on, and will *)
(* keep its answer.  One such request at a time is looked at.               *)
Refetch(v, kept) ==
  LET dropped == /\ view.fetch.at # "idle" /\ ~view.fetch.cached
                 /\ Restarts(v) \/ v.fetch = Idle
  IN /\ dropped => stray = Idle
     /\ stray' = IF dropped THEN view.fetch ELSE stray
     /\ view' = IF Restarts(v) THEN [v EXCEPT !.fetch = Asked(kept)] ELSE v

(* A first fetch that is answered already is not started over.              *)
Overtaken ==
  missed \/ (view.data = Unseen /\ view.fetch.at = "answered")

Answered(request) == [request EXCEPT !.at = "answered", !.saw = server]

(* The detail of a deployment that is gone answers 404.                     *)
NotFound(request) == view.page = "detail" /\ request.saw = Gone

Answer ==
  /\ view.fetch.at = "sent"
  /\ view' = [view EXCEPT !.fetch = Answered(@)]
  /\ UNCHANGED <<server, announced, stream, cache, stray, act, missed, troubles>>

(* The answer is kept for a while, an answer 404 leaves the page as it is,  *)
(* and what was kept may be older than what the server says now.            *)
Arrive ==
  LET fetch == view.fetch  notFound == NotFound(fetch) IN
  /\ fetch.at = "answered"
  /\ view' = [view EXCEPT !.data = IF notFound THEN @ ELSE fetch.saw, !.fetch = Idle]
  /\ cache' = IF fetch.cached \/ notFound THEN cache ELSE fetch.saw
  /\ missed' = (missed \/ notFound \/ (fetch.cached /\ fetch.saw # server))
  /\ UNCHANGED <<server, announced, stream, stray, act, troubles>>

FetchFails ==
  /\ view.fetch.at # "idle" /\ ~view.fetch.cached /\ Trouble
  /\ view' = [view EXCEPT !.fetch = Idle]
  /\ missed' = TRUE
  /\ UNCHANGED <<server, announced, stream, cache, stray, act>>

StrayAnswer ==
  /\ stray.at = "sent"
  /\ stray' = Answered(stray)
  /\ UNCHANGED <<server, announced, stream, view, cache, act, missed, troubles>>

StrayArrive ==
  /\ stray.at = "answered"
  /\ stray' = Idle
  /\ cache' = IF NotFound(stray) THEN cache ELSE stray.saw
  /\ UNCHANGED <<server, announced, stream, view, act, missed, troubles>>

(* CacheTTL.deployments is over, or the entry was evicted.                  *)
Expire ==
  /\ cache # Unseen
  /\ cache' = Unseen
  /\ UNCHANGED <<server, announced, stream, view, stray, act, missed, troubles>>

(* refetchInterval of a transitional deployment, or refetchOnWindowFocus.   *)
Ask ==
  /\ Mounted /\ view.fetch.at = "idle"
  /\ view' = [view EXCEPT !.fetch = Asked(cache)]
  /\ UNCHANGED <<server, announced, stream, cache, stray, act, missed, troubles>>

-----------------------------------------------------------------------------
(* The operator's own action on the deployment.                             *)
Act ==
  /\ Acts /\ act.at = "none" /\ Mounted
  /\ act' = [act EXCEPT !.at = "sent"]
  /\ UNCHANGED <<server, announced, stream, view, cache, stray, missed, troubles>>

ActHandled ==
  /\ act.at = "sent" /\ server < MaxVersion
  /\ server' = server + 1
  /\ act' = [act EXCEPT !.at = "handled", !.led = server + 1]
  /\ UNCHANGED <<announced, stream, view, cache, stray, missed, troubles>>

(* Answers from before the action that are on their way.                    *)
Crossing ==
  \E r \in {view.fetch, stray} : r.at = "answered" /\ ~r.cached /\ r.saw < act.led

(* Mutant: the action's answer does not touch what is kept.                 *)
ActConfirmedOnly ==
  /\ act.at = "handled"
  /\ act' = [act EXCEPT !.at = "confirmed", !.crossed = Crossing]
  /\ Refetch(view, cache)
  /\ missed' = Overtaken
  /\ UNCHANGED <<server, announced, stream, cache, troubles>>

(* invalidateCache, then the mutation's onSuccess.                          *)
ActConfirmed ==
  /\ act.at = "handled"
  /\ act' = [act EXCEPT !.at = "confirmed", !.crossed = Crossing]
  /\ cache' = Unseen
  /\ Refetch(view, cache')
  /\ missed' = Overtaken
  /\ UNCHANGED <<server, announced, stream, troubles>>

-----------------------------------------------------------------------------
(* The events. *)

(* Mutant: an event that comes late is applied all the same.                *)
PatchedAlways(d, v) == IF d.data = Unseen THEN d ELSE [d EXCEPT !.data = v]

(* Latest wins; a query without data is left alone.                         *)
Patched(d, v) == IF d.data = Unseen \/ v < d.data THEN d ELSE [d EXCEPT !.data = v]

(* handleGlobalEvent.  A deletion leaves the detail page and removes its    *)
(* query.                                                                   *)
HandleEvent ==
  LET v == Head(events) IN
  /\ client = "connected" /\ events # <<>>
  /\ events' = Tail(events)
  /\ Refetch(IF view.page = "list" THEN view
             ELSE IF v = Gone THEN [view EXCEPT !.data = Gone, !.fetch = Idle] ELSE Patched(view, v), cache)
  /\ missed' = Overtaken
  /\ UNCHANGED <<server, announced, subscribed, client, attempts, connectedOnce, cache, act, troubles>>

-----------------------------------------------------------------------------
(* The stream. *)
Subscribe ==
  /\ client = "connecting" /\ ~subscribed
  /\ subscribed' = TRUE /\ events' = <<>>
  /\ UNCHANGED <<server, announced, client, attempts, connectedOnce, view, cache, stray, act, missed, troubles>>

(* Mutant: a reconnect is taken for a first connect.                        *)
OpenedQuietly ==
  /\ client = "connecting" /\ subscribed
  /\ client' = "connected" /\ attempts' = 0
  /\ connectedOnce' = TRUE
  /\ UNCHANGED <<server, announced, events, subscribed, view, cache, stray, act, missed, troubles>>

(* onTransportOpen, and the reconnect effect.                               *)
Opened ==
  /\ client = "connecting" /\ subscribed
  /\ client' = "connected" /\ attempts' = 0
  /\ connectedOnce' = TRUE
  /\ IF connectedOnce THEN Refetch(view, cache) /\ missed' = Overtaken
                      ELSE UNCHANGED <<view, stray, missed>>
  /\ UNCHANGED <<server, announced, events, subscribed, cache, act, troubles>>

(* handleError: another attempt later, or none ever.                        *)
HandleError ==
  /\ events' = <<>> /\ subscribed' = FALSE
  /\ IF attempts < MaxAttempts
     THEN client' = "waiting" /\ attempts' = attempts + 1 /\ UNCHANGED missed
     ELSE client' = "disconnected" /\ missed' = TRUE /\ UNCHANGED attempts
  /\ UNCHANGED <<server, announced, connectedOnce, view, cache, stray, act>>

(* The stream ends. *)
Lose ==
  /\ client = "connected" /\ Trouble
  /\ HandleError

(* The connection is refused. *)
Refused ==
  /\ client = "connecting"
  /\ HandleError /\ UNCHANGED troubles

(* The stream dies without a word.                                          *)
LoseSilently ==
  /\ subscribed /\ Trouble
  /\ subscribed' = FALSE /\ events' = <<>>
  /\ UNCHANGED <<server, announced, client, attempts, connectedOnce, view, cache, stray, act, missed>>

(* Mutant: nothing watches a stream that is open but silent.                *)
Unwatched ==
  /\ client = "waiting" /\ subscribed
  /\ HandleError /\ UNCHANGED troubles

(* scheduleHeartbeat: no heartbeat came for longer than heartbeatTimeout.   *)
HeartbeatTimeout ==
  /\ client = "connected" /\ ~subscribed
  /\ HandleError /\ UNCHANGED troubles

Reconnect ==
  /\ client = "waiting"
  /\ client' = "connecting"
  /\ UNCHANGED <<server, announced, events, subscribed, attempts, connectedOnce, view, cache, stray, act, missed, troubles>>

-----------------------------------------------------------------------------
Fetching == Answer \/ Arrive
Straying == StrayAnswer \/ StrayArrive
Acting      == ActHandled \/ ActConfirmed
Streaming   == Subscribe \/ Opened \/ HandleEvent \/ HeartbeatTimeout \/ Reconnect

Next ==
  \/ Change \/ Emit \/ EmitNothing
  \/ Fetching \/ FetchFails \/ Straying \/ Expire \/ Ask
  \/ Act \/ Acting
  \/ Streaming \/ Lose \/ Refused \/ LoseSilently

Spec == Init /\ [][Next]_vars

(* Requests and events go on; nobody has to look at the window.             *)
Fairness == WF_vars(Emit) /\ WF_vars(Streaming) /\ WF_vars(Fetching)

FairSpec == Spec /\ Fairness

-----------------------------------------------------------------------------
(* Types of the variables of a dashboard. *)
Requests == [at : {"idle", "sent", "answered"}, saw : 0..Gone, cached : BOOLEAN]

TypeOK ==
  /\ server \in Versions \cup {Gone} /\ announced \in Versions \cup {Gone}
  /\ events \in Seq(Versions \cup {Gone}) /\ subscribed \in BOOLEAN
  /\ client \in {"connecting", "connected", "waiting", "disconnected"}
  /\ attempts \in 0..MaxAttempts /\ connectedOnce \in BOOLEAN
  /\ view \in [page : Pages, data : 0..Gone, fetch : Requests]
  /\ cache \in 0..Gone /\ stray \in Requests
  /\ act \in [at : {"none", "sent", "handled", "confirmed"}, led : 0..MaxVersion,
              crossed : BOOLEAN]
  /\ missed \in BOOLEAN /\ troubles \in 0..MaxTroubles

Current == view.data = server

(* "0 instances remain where an operator must refresh the browser to see a  *)
(* change that was already emitted" (specs/001-web-state-freshness/spec.md: *)
(* 126): however the stream is lost, an open view ends up showing what the  *)
(* server says.  The code leaves it behind where the dashboard was told of  *)
(* the change before it had data, gave up, was refused a fetch, or was      *)
(* answered from the cache in front of the server.                          *)
CurrentOrMissed == Current \/ missed

ViewsConverge == <>[]CurrentOrMissed

(* No answer and no event takes a view back to an older state, however they *)
(* cross; only the cache in front of the server does.                       *)
Forward == view'.data >= view.data \/ view.fetch.cached

NeverBackwards == [][Forward]_vars

(* What is shown from the cache after the operator's own action was         *)
(* confirmed is not from before it (FR-007), but for answers that crossed   *)
(* it.                                                                      *)
OwnActionShown ==
  act.at = "confirmed" /\ ~act.crossed => cache = Unseen \/ cache >= act.led

-----------------------------------------------------------------------------
(* The inductive invariant behind the last two: nothing is known of a state *)
(* that is still to come.                                                   *)
Known      == 0..server
KnownReply == [at : {"idle", "sent", "answered"}, saw : Known, cached : BOOLEAN]

NothingAhead ==
  /\ server \in Versions \cup {Gone}
  /\ events \in Seq(Known)
  /\ view \in [page : Pages, data : Known, fetch : KnownReply]
  /\ cache \in Known /\ stray \in KnownReply
  /\ act \in [at : {"none", "sent", "handled", "confirmed"}, led : Known, crossed : BOOLEAN]

(* What a request has been answered is no older than what the page shows,   *)
(* and one that was started over had not been answered from the cache.      *)
AnswersAreNews ==
  /\ view.fetch.at = "answered" /\ ~view.fetch.cached => view.fetch.saw >= view.data
  /\ ~stray.cached

(* After the operator's own action, all there is to keep knows of it.       *)
KeepsOwnAction ==
  act.at = "confirmed" /\ ~act.crossed =>
    /\ cache = Unseen \/ cache >= act.led
    /\ \A r \in {view.fetch, stray} : r.at = "answered" /\ ~r.cached => r.saw >= act.led

ViewInv == NothingAhead /\ AnswersAreNews /\ KeepsOwnAction
=============================================================================
