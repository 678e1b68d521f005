------------------------------ MODULE LiveViews ------------------------------
(***************************************************************************)
(* What a page shows of the server while it changes: the leaderboard of a  *)
(* pool, the jackpot, the feed of pools.  The server pushes over Socket.IO *)
(* (apps/backend/src/socket), the page polls besides, and both write the   *)
(* same piece of React state (lib/hooks/useSocket, PoolLeaderboard,        *)
(* useWeeklyJackpot, LiveTournamentFeed).                                  *)
(*                                                                         *)
(* The interval callbacks await the database and overlap; a message says   *)
(* what was read before it was sent.  useQuery keeps the old object when   *)
(* an answer says nothing new, and the effect that copies it into the view *)
(* runs only for a new one.  What is shown is abstracted to the number of  *)
(* changes it includes.                                                    *)
(***************************************************************************)
EXTENDS Naturals, Sequences, FiniteSets

CONSTANTS
  None,
  Asked,           \* a query that is on its way to the database
  Callbacks,       \* bound: callbacks of the broadcast interval that may overlap
  MaxStandings,    \* bound: how often the data changes
  Empty,           \* the standings at which no pool is listed, for the feed
  MaxUnderWay,     \* bound: pushes between the start of their callback and the view
  MaxDrops         \* bound: how often the connection drops or the server restarts

ASSUME ViewConstants ==
  /\ MaxStandings \in Nat /\ MaxUnderWay \in Nat /\ MaxDrops \in Nat
  /\ Empty \subseteq 0 .. MaxStandings

VARIABLES
  kind,        \* what the page shows; it never changes
  status,      \* external: Tournament.status of the pool
  standings,   \* external: the changes made to what the view shows
  callbacks,   \* setInterval callbacks: None, Asked, or what was read
  link,        \* the client's socket and its room
  greeting,    \* the first push to a client: None, Asked, or what was read
  wire,        \* pushes on their way to the page, in order
  request,     \* the poll: None, Asked, or what was read
  cache,       \* the query's data, None before the first answer
  shown,       \* the state the page renders
  drops

view == <<standings, callbacks, link, greeting, wire, request, cache, shown, drops>>
liveVars == <<kind, status, view>>

(* "none" is a tab that is on a page without such a view.                  *)
Kinds == {"leaderboard", "jackpot", "feed", "none"}
Viewing == kind # "none"
Statuses == {"OPEN", "CLOSED", "SETTLED"}
Read == 0 .. MaxStandings

ViewTypeOK ==
  /\ kind \in Kinds
  /\ status \in Statuses
  /\ standings \in Read
  /\ callbacks \in [Callbacks -> Read \cup {None, Asked}]
  /\ link \in [up : BOOLEAN, subscribe : {"buffered", "sent", "gone"}, joined : BOOLEAN]
  /\ greeting \in Read \cup {None, Asked}
  /\ wire \in Seq(Read)
  /\ request \in Read \cup {None, Asked}
  /\ cache \in Read \cup {None}
  /\ shown \in Read \cup {None}
  /\ drops \in 0 .. MaxDrops

ViewInit ==
  /\ kind \in Kinds
  /\ status = "OPEN"
  /\ standings = 0
  /\ callbacks = [c \in Callbacks |-> None]
  /\ link = [up |-> FALSE, subscribe |-> "buffered", joined |-> FALSE]
  /\ greeting = None
  /\ wire = << >>
  /\ request = None
  /\ cache = None
  /\ shown = None
  /\ drops = 0

-----------------------------------------------------------------------------
(* The database changes: a join or a score, the last seat, the settlement. *)

Changes(to) ==
  /\ standings < MaxStandings
  /\ standings' = standings + 1
  /\ status' = to
  /\ UNCHANGED <<kind, callbacks, link, greeting, wire, request, cache, shown, drops>>

StandingsChange == Changes(status)
PoolFills   == status = "OPEN" /\ Changes("CLOSED")
PoolSettles == status # "SETTLED" /\ Changes("SETTLED")

-----------------------------------------------------------------------------
(* startBroadcastLoops.                                                    *)

(* Mutation: the pools listed are those that can be joined.                *)
ListedWhileOpen == kind # "leaderboard" \/ status = "OPEN"

(* Patches go to the pools that are not settled, ticks and feeds to all.   *)
Listed == kind # "leaderboard" \/ status # "SETTLED"

UnderWay == Cardinality({c \in Callbacks : callbacks[c] # None}) + Len(wire)

StartCallback(c) ==
  /\ callbacks[c] = None
  /\ UnderWay < MaxUnderWay
  /\ callbacks' = [callbacks EXCEPT ![c] = Asked]
  /\ UNCHANGED <<kind, status, standings, link, greeting, wire, request, cache, shown, drops>>

(* An interval fires, whether its last callback is over or not.            *)
IntervalFires(c) == Listed /\ StartCallback(c)

(* After a join, a contribution to the jackpot and the start of an epoch   *)
(* the ticks and feeds are sent once more.  Nobody awaits it.              *)
BroadcastEconomyUpdates(c) ==
  /\ kind \in {"jackpot", "feed"} /\ standings > 0
  /\ StartCallback(c)

FetchEntries(c) ==
  /\ callbacks[c] = Asked
  /\ callbacks' = [callbacks EXCEPT ![c] = standings]
  /\ UNCHANGED <<kind, status, standings, link, greeting, wire, request, cache, shown, drops>>

EmitPatch(c) ==
  /\ callbacks[c] \in Read
  /\ callbacks' = [callbacks EXCEPT ![c] = None]
  /\ wire' = IF link.joined THEN Append(wire, callbacks[c]) ELSE wire
  /\ UNCHANGED <<kind, status, standings, link, greeting, request, cache, shown, drops>>

-----------------------------------------------------------------------------
(* The connection.  A leaderboard is pushed to those who have subscribed,  *)
(* which the client does once: the packet waits for the first connection   *)
(* and is not sent again after another one.  The other namespaces push to  *)
(* everyone who is connected.  The client may give up to connect.          *)
Connect ==
  /\ ~link.up
  /\ link' = [up |-> TRUE,
              subscribe |-> IF link.subscribe = "buffered" THEN "sent" ELSE link.subscribe,
              joined |-> kind # "leaderboard"]
  /\ greeting' = IF kind = "leaderboard" THEN None ELSE Asked
  /\ UNCHANGED <<kind, status, standings, callbacks, wire, request, cache, shown, drops>>

(* leaderboard:subscribe: the room first, then the snapshot.               *)
Subscribe ==
  /\ kind = "leaderboard"
  /\ link.up /\ link.subscribe = "sent"
  /\ link' = [link EXCEPT !.subscribe = "gone", !.joined = TRUE]
  /\ greeting' = Asked
  /\ UNCHANGED <<kind, status, standings, callbacks, wire, request, cache, shown, drops>>

FetchGreeting ==
  /\ greeting = Asked
  /\ greeting' = standings
  /\ UNCHANGED <<kind, status, standings, callbacks, link, wire, request, cache, shown, drops>>

EmitGreeting ==
  /\ greeting \in Read
  /\ greeting' = None
  /\ wire' = Append(wire, greeting)
  /\ UNCHANGED <<kind, status, standings, callbacks, link, request, cache, shown, drops>>

Disconnected ==
  /\ link' = [up |-> FALSE, joined |-> FALSE,
              subscribe |-> IF link.subscribe = "sent" THEN "gone" ELSE link.subscribe]
  /\ greeting' = None
  /\ wire' = << >>
  /\ drops < MaxDrops
  /\ drops' = drops + 1

DropConnection ==
  /\ link.up
  /\ Disconnected
  /\ UNCHANGED <<kind, status, standings, callbacks, request, cache, shown>>

ServerRestarts ==
  /\ Disconnected
  /\ callbacks' = [c \in Callbacks |-> None]
  /\ request' = IF request = Asked THEN None ELSE request
  /\ UNCHANGED <<kind, status, standings, cache, shown>>

-----------------------------------------------------------------------------
(* The page.                                                               *)

PushArrives ==
  /\ wire # << >>
  /\ shown' = Head(wire)
  /\ wire' = Tail(wire)
  /\ UNCHANGED <<kind, status, standings, callbacks, link, greeting, request, cache, drops>>

(* refetchInterval; a query has one request at a time.                     *)
Refetch ==
  /\ request = None
  /\ request' = Asked
  /\ UNCHANGED <<kind, status, standings, callbacks, link, greeting, wire, cache, shown, drops>>

(* GET of the leaderboard, the season or the list: one query.              *)
ServerAnswers ==
  /\ request = Asked
  /\ request' = standings
  /\ UNCHANGED <<kind, status, standings, callbacks, link, greeting, wire, cache, shown, drops>>

RequestFails ==
  /\ request = Asked
  /\ request' = None
  /\ UNCHANGED <<kind, status, standings, callbacks, link, greeting, wire, cache, shown, drops>>

(* Mutation: the answer is copied into the view that has nothing yet.      *)
CopiedOnce(answer) == IF shown = None THEN answer ELSE shown

(* useEffect on the query's data.  An empty list is not copied: the feed   *)
(* shows the pools it had, until a push takes them away.                   *)
Copied(answer) ==
  IF answer = cache \/ (kind = "feed" /\ answer \in Empty) THEN shown ELSE answer

AnswerArrives ==
  /\ request \in Read
  /\ request' = None
  /\ cache' = request
  /\ shown' = Copied(request)
  /\ UNCHANGED <<kind, status, standings, callbacks, link, greeting, wire, drops>>

ViewNext ==
  /\ Viewing
  /\ \/ StandingsChange \/ PoolFills \/ PoolSettles
     \/ \E c \in Callbacks : \/ IntervalFires(c) \/ BroadcastEconomyUpdates(c)
                             \/ FetchEntries(c) \/ EmitPatch(c)
     \/ Connect \/ Subscribe \/ FetchGreeting \/ EmitGreeting
     \/ DropConnection \/ ServerRestarts
     \/ PushArrives \/ Refetch \/ ServerAnswers \/ RequestFails \/ AnswerArrives

(* Intervals fire, queries of the database and deliveries end, and the     *)
(* poll is not lost every time.  Nobody has to connect.                    *)
ViewFairness ==
  /\ WF_liveVars(Viewing /\ \E c \in Callbacks : IntervalFires(c))
  /\ \A c \in Callbacks : /\ WF_liveVars(Viewing /\ FetchEntries(c))
                          /\ WF_liveVars(Viewing /\ EmitPatch(c))
  /\ WF_liveVars(Viewing /\ FetchGreeting) /\ WF_liveVars(Viewing /\ EmitGreeting)
  /\ WF_liveVars(Viewing /\ PushArrives) /\ WF_liveVars(Viewing /\ Refetch)
  /\ SF_liveVars(Viewing /\ ServerAnswers) /\ WF_liveVars(Viewing /\ AnswerArrives)

-----------------------------------------------------------------------------
(* Properties.                                                             *)

(* Every change comes to be shown, whatever happens to the socket: a       *)
(* connection lost, a room that was not joined again, a restart.  But for  *)
(* the feed's last pool, which stays on the page when it is gone.          *)
ChangesAreShown ==
  \A v \in 1 .. MaxStandings :
    (standings >= v /\ (cache = None \/ cache \in 0 .. v - 1))
      ~> (shown \in v .. MaxStandings
            \/ (kind = "feed" /\ cache \in Empty \cap (v .. MaxStandings)))

(* A view that keeps receiving pushes follows: when the data changes no    *)
(* more, no late message of an overlapping callback, of the snapshot or of *)
(* the poll stays on it.  Of a settled pool there are no more pushes.      *)
PushedViewsFollow ==
  \A v \in 0 .. MaxStandings :
    <>[](/\ Viewing /\ link.joined /\ standings = v
         /\ kind = "leaderboard" => status # "SETTLED")
      => <>[](shown = v)

(* Not checked by a run, because it does not hold: a patch that was read   *)
(* before the settlement and arrives after the first poll that includes it *)
(* stays, since no later answer is new to the query.                       *)
ViewsCatchUp ==
  \A v \in 0 .. MaxStandings :
    <>[](Viewing /\ standings = v) => <>[](shown = v)
=============================================================================
