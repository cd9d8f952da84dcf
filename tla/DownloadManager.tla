--------------------------- MODULE DownloadManager ---------------------------
(***************************************************************************)
(* Net::DownloadManager and DownloadHandlerImpl: downloads over HTTP, of     *)
(* which a sequential service (a host and port) is given one at a time.      *)
(*                                                                         *)
(* A handler here is the handler that a client holds together with those     *)
(* that its redirections create: they end with one another, and only the     *)
(* last has a reply or waits. One that has ended is left out, though the      *)
(* object is destroyed later, unless it still waits in a queue. The steps are  *)
(* functions on the record Manager, because one event runs several: a reply    *)
(* that is aborted starts the next download.                                  *)
(***************************************************************************)
EXTENDS Integers, Sequences, FiniteSets, SequencesExt, FiniteSetsExt, Functions

CONSTANTS
    Service,          \* hosts (ServiceID)
    Handler,          \* identities of the handlers that exist at a time
    MaxRedirections   \* MAX_REDIRECTIONS; 20 in the code

ASSUME DownloadManagerAssumption ==
    /\ IsFiniteSet(Handler)
    /\ Handler \subseteq Nat
    /\ MaxRedirections \in Nat

VARIABLES
    handler,      \* the handlers that exist
    waiting,      \* m_waitingJobs
    busy,         \* m_busyServices
    sequential,   \* m_sequentialServices
    orphaned      \* history: services whose reply was destroyed unfinished

manager == <<handler, waiting, busy, sequential, orphaned>>

(* waiting and running as their names say; ended: finished was emitted and
   deleteLater posted, and it is still in a queue; lost: then it was given a
   reply. *)
State == {"waiting", "running", "ended", "lost"}

Manager == [handler |-> handler, waiting |-> waiting, busy |-> busy,
            sequential |-> sequential, orphaned |-> orphaned]

Becomes(d) ==
    /\ handler' = d.handler
    /\ waiting' = d.waiting
    /\ busy' = d.busy
    /\ sequential' = d.sequential
    /\ orphaned' = d.orphaned

NextHandler(d) == Min(Handler \ DOMAIN d.handler)

HasRoom(d, n) == Cardinality(DOMAIN d.handler) + n <= Cardinality(Handler)

Live(h) == h.state \in {"waiting", "running"}

-----------------------------------------------------------------------------
(* Functions on the manager *)

\* assignNetworkReply
Assigned(d, i) ==
    [d EXCEPT !.handler[i].state = IF @ = "ended" THEN "lost" ELSE "running"]

\* The request of i, to service s, waits or is sent.
Requested(d, i, s) ==
    IF s \in d.sequential /\ s \in d.busy
    THEN [d EXCEPT !.waiting[s] = Append(@, i)]
    ELSE Assigned([d EXCEPT !.busy = IF s \in d.sequential THEN @ \cup {s} ELSE @], i)

Download(d, owner, s) ==
    LET i   == NextHandler(d)
        new == [state |-> "waiting", owner |-> owner, service |-> s, redirections |-> 0]
    IN  Requested([d EXCEPT !.handler = [j \in DOMAIN @ \cup {i} |->
                                            IF j = i THEN new ELSE @[j]]], i, s)

\* Mutated form: the service stays busy when nothing waits.
HandleReplyFinishedKeeps(d, s) ==
    IF d.waiting[s] = <<>> THEN d
    ELSE Assigned([d EXCEPT !.waiting[s] = Tail(@), !.orphaned = @ \ {s}],
                  Head(d.waiting[s]))

\* handleReplyFinished: the next download of service s starts.
HandleReplyFinished(d, s) ==
    IF d.waiting[s] = <<>> THEN [d EXCEPT !.busy = @ \ {s}, !.orphaned = @ \ {s}]
    ELSE Assigned([d EXCEPT !.waiting[s] = Tail(@), !.orphaned = @ \ {s}],
                  Head(d.waiting[s]))

\* DownloadHandlerImpl::finish
Finish(d, i) ==
    IF d.handler[i].state = "waiting" THEN [d EXCEPT !.handler[i].state = "ended"]
    ELSE [d EXCEPT !.handler = Restrict(@, DOMAIN @ \ {i})]

\* The reply of i ends. The manager is connected to it first.
ReplyEnds(d, i) == Finish(HandleReplyFinished(d, d.handler[i].service), i)

\* handleRedirection to service s
HandleRedirection(d, i, s) ==
    LET next == HandleReplyFinished(d, d.handler[i].service)
    IN  IF d.handler[i].redirections >= MaxRedirections THEN Finish(next, i)
        ELSE Requested([next EXCEPT !.handler[i].state = "waiting", !.handler[i].service = s,
                                    !.handler[i].redirections = @ + 1], i, s)

\* cancel: it does nothing once the handler's own reply has ended.
Cancel(d, i) ==
    IF d.handler[i].redirections > 0 THEN d
    ELSE IF d.handler[i].state = "running" THEN ReplyEnds(d, i)
    ELSE Finish(d, i)

\* The object of a handler that has ended is destroyed, and with it the reply
\* that it may have.
Destroyed(d, i) ==
    LET s == d.handler[i].service
    IN  [d EXCEPT !.handler = Restrict(@, DOMAIN @ \ {i}),
                  !.waiting[s] = RemoveFirst(@, i),
                  !.orphaned = IF d.handler[i].state = "lost" THEN @ \cup {s} ELSE @]

-----------------------------------------------------------------------------

ManagerInit ==
    /\ handler = << >>
    /\ waiting = [s \in Service |-> <<>>]
    /\ busy = {}
    /\ orphaned = {}

ManagerTypeOK(Owner) ==
    /\ DOMAIN handler \subseteq Handler
    /\ \A i \in DOMAIN handler :
          handler[i] \in [state: State, owner: Owner, service: Service,
                          redirections: 0..MaxRedirections]
    /\ waiting \in [Service -> Seq(DOMAIN handler)]
    /\ busy \subseteq sequential
    /\ sequential \subseteq Service
    /\ orphaned \subseteq Service

\* A request of service s is under way.
HasReply(s) ==
    \E i \in DOMAIN handler : handler[i].state \in {"running", "lost"} /\ handler[i].service = s

(* A service that is busy has a reply to come, and what waits for a service
   waits behind one: handleReplyFinished, which is the only one to start what
   waits, will be called. Except for a service whose reply was destroyed with
   the handler that was cancelled before it came to its turn. *)
WaitersAreServed ==
    /\ \A s \in busy \ orphaned : HasReply(s)
    /\ \A s \in Service \ orphaned : waiting[s] # <<>> => HasReply(s)

=============================================================================
