----------------------------- MODULE EventStream -----------------------------
(***************************************************************************)
(* How a client learns that an expression has moved on.                    *)
(*                                                                         *)
(* Dashboards: after every commit the scheduler publishes an event on      *)
(* Redis (usecase/scheduler, repo/cache); every orchestrator's SSEHub      *)
(* broadcasts it to the browsers connected to it (controller/http/v1); a   *)
(* browser takes the event as a signal and fetches the expression again    *)
(* (frontend/lib/sse.ts, app/page.tsx).  Nothing on this path is           *)
(* acknowledged.                                                           *)
(*                                                                         *)
(* gRPC clients: WatchExpression polls the database and sends what changed *)
(* until the expression settles (controller/grpc/v1).                      *)
(*                                                                         *)
(* One expression.  Its state is the number of commits so far, the first   *)
(* of which stores it, so that a list read before that does not have it.   *)
(* Of an event only its kind matters.                                      *)
(***************************************************************************)
EXTENDS Integers, FiniteSets, Sequences

CONSTANTS Total,      \* tasks of the expression
          Browser,    \* pages
          HubOf,      \* the orchestrator a page is connected to
          Buffer,     \* capacity of a client's channel, 64 in the code
          Healthy,    \* pages whose browser keeps reading
          MaxCommits, \* bound: the commits followed
          MaxLosses,  \* bound: events Redis loses, connections that break, reads that fail
          Off         \* not subscribed

ASSUME StreamAssumption ==
    /\ Total \in Nat \ {0} /\ Buffer \in Nat \ {0}
    /\ MaxCommits \in Nat /\ MaxLosses \in Nat
    /\ Healthy \subseteq Browser

Hub      == {HubOf[b] : b \in Browser}
Versions == 0..MaxCommits

VARIABLES store,     \* the rows: commits so far, tasks done and failed, settled, done when it settled
          due,       \* due[v]: events of commit v that are not published yet
          pubsub,    \* pubsub[h]: events on their way to the bridge of h
          channel,   \* channel[b]: events buffered for b, or Off
          tab,       \* tab[b]: the browser's side
          behind,    \* behind[b]: b lost something, and no signal has made it fetch since
          watch,     \* the WatchExpression stream
          losses     \* faults so far
streamVars == <<store, due, pubsub, channel, tab, behind, watch, losses>>
serverVars == <<store, due, pubsub>>

(* What a browser that stopped reading would fetch is not followed.        *)
Fetches(b) == IF b \in Healthy THEN 1 ELSE 0

(* A page not opened yet; one just opened, which fetches the list and      *)
(* connects; one that is closed.  shown = 0 is a list without the          *)
(* expression.                                                             *)
NoAnswers == [v \in Versions |-> 0]
Unopened  == [stream |-> "new", asked |-> 0, shown |-> 0, answers |-> NoAnswers]
Opened(b) == [Unopened EXCEPT !.stream = "closed", !.asked = Fetches(b)]
Gone      == [Unopened EXCEPT !.stream = "left"]

OnScreen(b) == tab[b].stream \in {"closed", "open"}

(* Pages of S lose a signal.  It is no loss to one whose last fetch is     *)
(* still to be answered: the answer will be of a later moment.             *)
Missed(S) == [b \in Healthy |-> behind[b] \/ (b \in S /\ OnScreen(b) /\ tab[b].asked = 0)]

-----------------------------------------------------------------------------
StreamInit ==
    /\ store = [commits |-> 0, done |-> 0, failed |-> 0, settled |-> FALSE, doneThen |-> 0]
    /\ due = [v \in Versions |-> <<>>]
    /\ pubsub = [h \in Hub |-> <<>>]
    /\ channel = [b \in Browser |-> Off]
    /\ \E Present \in SUBSET Browser :
          tab = [b \in Browser |-> IF b \in Present THEN Unopened ELSE Gone]
    /\ behind = [b \in Healthy |-> FALSE]
    /\ \E at \in {"sleep", "broken"} :
          watch = [at |-> at, settled |-> FALSE, lastDone |-> 0, known |-> TRUE,
                   sent |-> FALSE, sentSettled |-> FALSE, sentDone |-> 0]
    /\ losses = 0

(* One transaction, and the events to publish once it has committed.       *)
Committed(s, events) ==
    /\ store.commits < MaxCommits
    /\ store' = [s EXCEPT !.commits = @ + 1]
    /\ due' = [due EXCEPT ![store.commits + 1] = events]
    /\ UNCHANGED <<pubsub, channel, tab, behind, watch, losses>>

CommitSubmitted == store.commits = 0 /\ Committed(store, <<"expression">>)

(* The event of a "started" report is published even if the row has moved  *)
(* on already and nothing is changed.                                      *)
CommitStarted == store.commits > 0 /\ Committed(store, <<"task">>)

Unfinished == store.commits > 0 /\ store.done + store.failed < Total

(* The events of the dependents it makes ready repeat the signal of its    *)
(* own.  Late results still complete tasks of a failed expression.         *)
CommitDone ==
    /\ Unfinished
    /\ LET last == store.done + 1 = Total
       IN  Committed([store EXCEPT !.done = @ + 1, !.settled = @ \/ last,
                                   !.doneThen = IF last THEN Total ELSE @],
                     IF last THEN <<"task", "expression">> ELSE <<"task">>)

CommitFailed ==
    /\ Unfinished
    /\ Committed([store EXCEPT !.failed = @ + 1, !.settled = TRUE,
                               !.doneThen = IF store.settled THEN @ ELSE store.done],
                 <<"task", "expression">>)

(* emit runs after the commit, one event after the other; the failure of   *)
(* Notify is logged and forgotten.                                         *)
Notify(v) ==
    /\ due[v] # <<>>
    /\ due' = [due EXCEPT ![v] = Tail(@)]
    /\ pubsub' = [h \in Hub |-> Append(pubsub[h], Head(due[v]))]
    /\ UNCHANGED <<store, channel, tab, behind, watch, losses>>

NotifyLost(v) ==
    /\ due[v] # <<>> /\ losses < MaxLosses
    /\ due' = [due EXCEPT ![v] = Tail(@)]
    /\ behind' = Missed(Healthy)
    /\ losses' = losses + 1
    /\ UNCHANGED <<store, pubsub, channel, tab, watch>>

-----------------------------------------------------------------------------
(* SSEHub.Broadcast, under the read lock: a client whose channel is full   *)
(* misses the event, nobody waits for it.  A browser that reads has not    *)
(* lost a signal then: an earlier one is still in its channel.             *)
Clients(h) == {b \in Browser : HubOf[b] = h}
Misses(b)  == channel[b] = Off \/ Len(channel[b]) = Buffer

Broadcast(h) ==
    /\ pubsub[h] # <<>>
    /\ pubsub' = [pubsub EXCEPT ![h] = Tail(@)]
    /\ channel' = [b \in Browser |-> IF HubOf[b] # h \/ Misses(b) THEN channel[b]
                                      ELSE Append(channel[b], Head(pubsub[h]))]
    /\ behind' = Missed({b \in Clients(h) : channel[b] = Off})
    /\ UNCHANGED <<store, due, tab, watch, losses>>

(* The page is opened.                                                     *)
OpenPage(b) ==
    /\ tab[b].stream = "new"
    /\ tab' = [tab EXCEPT ![b] = Opened(b)]
    /\ UNCHANGED <<serverVars, channel, behind, watch, losses>>

(* EventSource connects; Handler subscribes the client.                    *)
Subscribe(b) ==
    /\ tab[b].stream = "closed" /\ channel[b] = Off
    /\ channel' = [channel EXCEPT ![b] = <<>>]
    /\ tab' = [tab EXCEPT ![b].stream = "open"]
    /\ UNCHANGED <<serverVars, behind, watch, losses>>

\* Faulty variant: an expression that is not on the list is never fetched.
RefetchesListed(b, kind) == b \in Healthy /\ tab[b].shown > 0

(* The dashboard takes an event of the expression as a reason to fetch,    *)
(* but one of a task only if the expression is on its list.                *)
Refetches(b, kind) == b \in Healthy /\ (kind = "expression" \/ tab[b].shown > 0)

Receive(b, kind) ==
    \/ /\ Refetches(b, kind)
       /\ tab' = [tab EXCEPT ![b].asked = @ + 1]
       /\ behind' = [behind EXCEPT ![b] = FALSE]
    \/ /\ ~Refetches(b, kind)
       /\ behind' = IF kind = "task" THEN Missed({b}) ELSE behind
       /\ UNCHANGED tab

(* Handler's loop writes one event.  A connection the browser has left is  *)
(* noticed only here, by the failing flush, and the client is unsubscribed *)
(* with what its channel held.                                             *)
Stream(b) ==
    /\ channel[b] \notin {Off, <<>>}
    /\ \/ /\ tab[b].stream = "open"
          /\ channel' = [channel EXCEPT ![b] = Tail(@)]
          /\ Receive(b, Head(channel[b]))
       \/ /\ tab[b].stream # "open"
          /\ channel' = [channel EXCEPT ![b] = Off]
          /\ behind' = Missed({b})
          /\ UNCHANGED tab
    /\ UNCHANGED <<serverVars, watch, losses>>

(* The user closes the page; the hub is not told.                          *)
Leave(b) ==
    /\ OnScreen(b)
    /\ tab' = [tab EXCEPT ![b] = Gone]
    /\ UNCHANGED <<serverVars, channel, behind, watch, losses>>

(* The connection breaks: the browser reconnects after two seconds, and    *)
(* does not fetch then.  Its old subscription lives until the next event;  *)
(* the model lets the new one wait for that.                               *)
Disconnect(b) ==
    /\ tab[b].stream = "open" /\ losses < MaxLosses
    /\ tab' = [tab EXCEPT ![b].stream = "closed"]
    /\ losses' = losses + 1
    /\ UNCHANGED <<serverVars, channel, behind, watch>>

(* The bridge's subscription fails: the orchestrator stops and is started  *)
(* again with an empty hub.                                                *)
BridgeLost(h) ==
    /\ losses < MaxLosses
    /\ pubsub' = [pubsub EXCEPT ![h] = <<>>]
    /\ channel' = [b \in Browser |-> IF b \in Clients(h) THEN Off ELSE channel[b]]
    /\ tab' = [b \in Browser |-> IF b \in Clients(h) /\ tab[b].stream = "open"
                                 THEN [tab[b] EXCEPT !.stream = "closed"]
                                 ELSE tab[b]]
    /\ behind' = Missed(Clients(h))
    /\ losses' = losses + 1
    /\ UNCHANGED <<store, due, watch>>

-----------------------------------------------------------------------------
(* refresh(): the API reads the database; the response travels.            *)
Fetch(b) ==
    /\ tab[b].asked > 0
    /\ tab' = [tab EXCEPT ![b].asked = @ - 1, ![b].answers[store.commits] = @ + 1]
    /\ UNCHANGED <<serverVars, channel, behind, watch, losses>>

(* A failed fetch is swallowed and the screen left as it is ("SSE keeps    *)
(* things fresh"): a loss, unless another fetch is to be answered yet.     *)
FetchFails(b) ==
    /\ tab[b].asked > 0 /\ losses < MaxLosses
    /\ tab' = [tab EXCEPT ![b].asked = @ - 1]
    /\ behind' = [behind EXCEPT ![b] = @ \/ tab[b].asked = 1]
    /\ losses' = losses + 1
    /\ UNCHANGED <<serverVars, channel, watch>>

(* Responses arrive in any order, and the last to arrive is shown, be it   *)
(* the older one.                                                          *)
Show(b, v) ==
    /\ tab[b].answers[v] > 0
    /\ tab' = [tab EXCEPT ![b].answers[v] = @ - 1, ![b].shown = v]
    /\ behind' = IF v < tab[b].shown THEN Missed({b}) ELSE behind
    /\ UNCHANGED <<serverVars, channel, watch, losses>>

-----------------------------------------------------------------------------
(* WatchExpression, one tick: svc.Get, then svc.Progress, two queries.     *)
(* The client has the expression's id from the answer to its submission.   *)
WatchGet ==
    /\ watch.at = "sleep" /\ store.commits > 0
    /\ watch' = [watch EXCEPT !.at = "got", !.settled = store.settled]
    /\ UNCHANGED <<serverVars, channel, tab, behind, losses>>

(* It sends what differs from the last message and ends on a settled one.  *)
\* Faulty variant: a message is sent only when the number of done tasks differs.
UnsentDoneOnly(settled, n) == ~watch.sent \/ n # watch.lastDone

Unsent(settled, n) ==
    ~watch.sent \/ settled # watch.sentSettled \/ n # watch.lastDone

Reported(settled, n, known) ==
    [watch EXCEPT !.at          = IF settled THEN "ended" ELSE "sleep",
                  !.settled     = FALSE,
                  !.lastDone    = n,
                  !.known       = known,
                  !.sent        = TRUE,
                  !.sentSettled = IF Unsent(settled, n) THEN settled ELSE @,
                  !.sentDone    = IF Unsent(settled, n) THEN n ELSE @]

WatchProgress ==
    /\ watch.at = "got"
    /\ watch' = Reported(watch.settled, store.done, TRUE)
    /\ UNCHANGED <<serverVars, channel, tab, behind, losses>>

(* The error of Progress is discarded: the message then says 0 of 0.       *)
WatchProgressFails ==
    /\ watch.at = "got" /\ losses < MaxLosses
    /\ watch' = Reported(watch.settled, 0, FALSE)
    /\ losses' = losses + 1
    /\ UNCHANGED <<serverVars, channel, tab, behind>>

(* An error of Get ends the stream with that error; so does the client.    *)
WatchBroken ==
    /\ watch.at = "sleep" /\ losses < MaxLosses
    /\ watch' = [watch EXCEPT !.at = "broken"]
    /\ losses' = losses + 1
    /\ UNCHANGED <<serverVars, channel, tab, behind>>

StreamNext ==
    \/ CommitSubmitted \/ CommitStarted \/ CommitDone \/ CommitFailed
    \/ \E v \in Versions : Notify(v) \/ NotifyLost(v)
    \/ \E h \in Hub : Broadcast(h) \/ BridgeLost(h)
    \/ \E b \in Browser : OpenPage(b) \/ Subscribe(b) \/ Stream(b) \/ Leave(b) \/ Disconnect(b)
    \/ \E b \in Browser : Fetch(b) \/ FetchFails(b) \/ \E v \in Versions : Show(b, v)
    \/ WatchGet \/ WatchProgress \/ WatchProgressFails \/ WatchBroken

(* The servers run, the ticker ticks, and a healthy browser keeps reading  *)
(* and fetching.  Nothing makes the expression move, a user open a page,   *)
(* or a stuck browser read.                                                *)
StreamFairness ==
    /\ WF_streamVars(\E v \in Versions : Notify(v))
    /\ \A h \in Hub : WF_streamVars(Broadcast(h))
    /\ \A b \in Healthy :
          /\ WF_streamVars(Subscribe(b))
          /\ WF_streamVars(Stream(b))
          /\ WF_streamVars(Fetch(b))
          /\ WF_streamVars(\E v \in Versions : Show(b, v))
    /\ WF_streamVars(WatchGet)
    /\ WF_streamVars(WatchProgress)

-----------------------------------------------------------------------------
(* A dashboard ends up showing the expression as it is, whatever a stuck   *)
(* browser on the same hub does, unless it is behind: an event was lost on *)
(* its way or dropped with a connection, or it was of a task and ignored   *)
(* because the list did not have the expression; a fetch failed; an older  *)
(* response arrived last; and all this with no fetch left to be answered,  *)
(* and no event acted upon since.  So one further event that is acted upon *)
(* makes up for every loss before ("SSE keeps things fresh", page.tsx:45), *)
(* and an event that finds the channel of a reading browser full is no     *)
(* loss at all.  It rests on the event being published after the commit,   *)
(* on the browser fetching after the event, and on Broadcast never waiting *)
(* for a client.                                                           *)
DashboardConverges ==
    \A b \in Healthy : <>[](OnScreen(b) /\ ~behind[b] => tab[b].shown = store.commits)

(* A watcher whose expression settles is told so: its stream ends, and the *)
(* last message carries the settled status together with at least the      *)
(* tasks that were done at that moment, unless its own progress query      *)
(* failed.                                                                 *)
WatchTellsTheEnd ==
    /\ [](watch.at = "ended" => /\ store.settled /\ watch.sentSettled
                                /\ watch.known => watch.sentDone >= store.doneThen)
    /\ store.settled ~> watch.at \in {"ended", "broken"}
=============================================================================
