----------------------------- MODULE ReplicaApp -----------------------------
(***************************************************************************)
(* The networking application, src/networking_application/replica.cpp.     *)
(*                                                                         *)
(* Two processes each keep metadata objects of their own, under their port *)
(* number as id, and a handler per data type.  A process has two threads:  *)
(*   - the console (main) executes one command after the other: counting,  *)
(*     inserting, removing, and "sync", which connects to the other        *)
(*     process, waits for its state and merges it;                         *)
(*   - the server (handle_requests) accepts one connection after the other *)
(*     and answers each with the state of the process.                     *)
(* The threads share the metadata objects without a lock.  Nothing is kept *)
(* on disk: a process that ends and is started again has forgotten all.    *)
(*                                                                         *)
(* Modelled are the PNCounter and the TwoPSet, the two data types that are *)
(* given ids (main, lines 222-223).  A handler's cached sum or sets are    *)
(* refreshed in the same call as its table, always by the console thread,  *)
(* which also prints them; so they are operators of the table here.        *)
(***************************************************************************)
EXTENDS PNCounterData, TwoPSetData, Sequences

CONSTANTS
    Proc,      \* the processes, named by their port
    None,      \* no response
    Amount,    \* the amounts the console counts up or down by
    MaxCount,  \* per process, a bound on the sum of the parts of its own counter
    Syncer,    \* the processes whose user types "sync"
    MayEnd     \* the processes that may end: by "exit", a crash, a bad response

ASSUME ProcAssumption == IsFiniteSet(Proc) /\ Cardinality(Proc) = 2
ASSUME ConsoleAssumption == /\ Amount \subseteq Nat \ {0}
                            /\ MaxCount \in [Proc -> T]
                            /\ Syncer \subseteq Proc /\ MayEnd \subseteq Proc

VARIABLES
    up,               \* the processes that run
    counter1Metadata, \* per process, its own counter
    set1Metadata,     \* per process, its own set
    counter1,         \* per process, the counter handler's table
    set1,             \* per process, the set handler's table
    console,          \* what the console thread is doing
    reading,          \* the fields the server thread has copied for its answer
    socket,           \* the console's connection and what has arrived on it
    response,         \* what the response buffer holds of earlier answers
    since,            \* the other's counter when the last answered sync connected
    merges            \* how often the other's state has been merged (0, 1 or more)

vars == <<up, counter1Metadata, set1Metadata, counter1, set1, console, reading,
          socket, response, since, merges>>

own == <<counter1Metadata, set1Metadata>>
handlers == <<counter1, set1>>
history == <<since, merges>>

\* list_servers holds both ports; a process connects to the one that is not its own.
Peer(p) == CHOOSE q \in Proc : q # p

\* A connection without an answer on it.
Connection(state) == [state |-> state, answer |-> None]
Closed == Connection("closed")

\* The other's counter when the latest answered sync connected, and when the
\* pending one did.
Since(latest, pending) == [latest |-> latest, pending |-> pending]

Init ==
    /\ up = [p \in Proc |-> TRUE]
    /\ counter1Metadata = [p \in Proc |-> NewMetadata(0)]
    /\ set1Metadata = [p \in Proc |-> NewSetMetadata]
    /\ counter1 = [p \in Proc |-> <<>>]
    /\ set1 = [p \in Proc |-> <<>>]
    /\ console = [p \in Proc |-> "idle"]
    /\ reading = [p \in Proc |-> <<>>]
    /\ socket = [p \in Proc |-> Closed]
    /\ response = [p \in Proc |-> None]
    /\ since = [p \in Proc |-> Since(NewMetadata(0), NewMetadata(0))]
    /\ merges = [p \in Proc |-> 0]

-----------------------------------------------------------------------------
(* The console *)

Idle(p) == up[p] /\ console[p] = "idle"

\* increasePayload and decreasePayload store the part first ...
StorePart(p, n) ==
    LET md == counter1Metadata[p] IN
    /\ Idle(p)
    /\ md.positivePayload + md.negativePayload + n <= MaxCount[p]
    /\ \/ counter1Metadata' = [counter1Metadata EXCEPT ![p].positivePayload = @ + n]
       \/ counter1Metadata' = [counter1Metadata EXCEPT ![p].negativePayload = @ + n]
    /\ console' = [console EXCEPT ![p] = "counting"]
    /\ UNCHANGED <<up, set1Metadata, handlers, reading, socket, response, history>>

\* Mutant: the command ends without telling the handler.
StoreTotalOnly(p) ==
    /\ up[p] /\ console[p] = "counting"
    /\ LET md == counter1Metadata[p]
           done == [md EXCEPT !.totalPayload = Wrap(md.positivePayload - md.negativePayload)]
       IN  counter1Metadata' = [counter1Metadata EXCEPT ![p] = done]
    /\ console' = [console EXCEPT ![p] = "idle"]
    /\ UNCHANGED <<up, set1Metadata, handlers, reading, socket, response, history>>

\* ... and then the total; the command ends with merging into the handler.
StoreTotal(p) ==
    /\ up[p] /\ console[p] = "counting"
    /\ LET md == counter1Metadata[p]
           done == [md EXCEPT !.totalPayload = Wrap(md.positivePayload - md.negativePayload)]
       IN  /\ counter1Metadata' = [counter1Metadata EXCEPT ![p] = done]
           /\ counter1' = [counter1 EXCEPT ![p] = Merged(@, p, done)]
    /\ console' = [console EXCEPT ![p] = "idle"]
    /\ UNCHANGED <<up, set1Metadata, set1, reading, socket, response, history>>

\* Mutant: the handler is told before the edit.
EditSetTellFirst(p, e) ==
    /\ Idle(p)
    /\ \/ set1Metadata' = [set1Metadata EXCEPT ![p] = Insert(@, e)]
       \/ set1Metadata' = [set1Metadata EXCEPT ![p] = Remove(@, e)]
    /\ set1' = [set1 EXCEPT ![p] = MergedSets(@, p, set1Metadata[p])]
    /\ UNCHANGED <<up, counter1Metadata, counter1, console, reading, socket, response, history>>

\* "twopset add" and "twopset remove"
EditSet(p, e) ==
    /\ Idle(p)
    /\ \/ set1Metadata' = [set1Metadata EXCEPT ![p] = Insert(@, e)]
       \/ set1Metadata' = [set1Metadata EXCEPT ![p] = Remove(@, e)]
    /\ set1' = [set1 EXCEPT ![p] = MergedSets(@, p, set1Metadata'[p])]
    /\ UNCHANGED <<up, counter1Metadata, counter1, console, reading, socket, response, history>>

\* "sync", up to the call of recv: connect is not checked for success.
Sync(p) ==
    /\ p \in Syncer
    /\ Idle(p)
    /\ console' = [console EXCEPT ![p] = "syncing"]
    /\ socket' = [socket EXCEPT ![p] =
            Connection(IF up[Peer(p)] THEN "connected" ELSE "failed")]
    /\ since' = [since EXCEPT ![p].pending = counter1Metadata[Peer(p)]]
    /\ UNCHANGED <<up, own, handlers, reading, response, merges>>

\* The merges of a sync: own metadata first, then the received.
MergeResponse(p, message) ==
    /\ counter1' = [counter1 EXCEPT ![p] =
            Merged(Merged(@, p, counter1Metadata[p]), Peer(p), message.counter)]
    /\ set1' = [set1 EXCEPT ![p] =
            MergedSets(MergedSets(@, p, set1Metadata[p]), Peer(p), message.set)]
    /\ merges' = [merges EXCEPT ![p] = IF @ < 2 THEN @ + 1 ELSE 2]
    /\ socket' = [socket EXCEPT ![p] = Closed]
    /\ console' = [console EXCEPT ![p] = "idle"]

\* recv has returned the answer.
Receive(p) ==
    /\ up[p] /\ socket[p].state = "answered"
    /\ MergeResponse(p, socket[p].answer)
    /\ response' = [response EXCEPT ![p] = socket[p].answer]
    /\ since' = [since EXCEPT ![p] = Since(@.pending, NewMetadata(0))]
    /\ UNCHANGED <<up, own, reading>>

\* The process ends, and its connections with it.  What the server thread of the
\* other has begun to copy for it goes nowhere.
Ended(p) ==
    /\ up' = [up EXCEPT ![p] = FALSE]
    /\ counter1Metadata' = [counter1Metadata EXCEPT ![p] = NewMetadata(0)]
    /\ set1Metadata' = [set1Metadata EXCEPT ![p] = NewSetMetadata]
    /\ counter1' = [counter1 EXCEPT ![p] = <<>>]
    /\ set1' = [set1 EXCEPT ![p] = <<>>]
    /\ console' = [console EXCEPT ![p] = "idle"]
    /\ reading' = [q \in Proc |-> <<>>]
    /\ socket' = [q \in Proc |->
            IF q = p THEN Closed
            ELSE IF socket[q].state = "connected" THEN Connection("failed") ELSE socket[q]]
    /\ response' = [response EXCEPT ![p] = None]
    /\ since' = [since EXCEPT ![p] = Since(NewMetadata(0), NewMetadata(0))]
    /\ merges' = [merges EXCEPT ![p] = 0]

\* Mutant: without an earlier answer the console goes on waiting.
ReceiveFailedWaits(p) ==
    /\ up[p] /\ socket[p].state = "failed"
    /\ response[p] # None
    /\ MergeResponse(p, response[p])
    /\ since' = [since EXCEPT ![p].pending = NewMetadata(0)]
    /\ UNCHANGED <<up, own, reading, response>>

\* recv has failed and left the buffer as it was in memory, which is parsed all
\* the same: what an earlier sync left there is merged again, and anything else
\* makes the parser throw, which nobody catches.
ReceiveFailed(p) ==
    /\ up[p] /\ socket[p].state = "failed"
    /\ \/ /\ response[p] # None
          /\ MergeResponse(p, response[p])
          /\ since' = [since EXCEPT ![p].pending = NewMetadata(0)]
          /\ UNCHANGED <<up, own, reading, response>>
       \/ Ended(p)

\* "exit", or the user or the system ends the process.
End(p) == p \in MayEnd /\ up[p] /\ Ended(p)

\* The server is reachable again.  In the code bind (line 77) is not checked and does
\* not reuse the address: soon after a process has ended in the middle of a sync it
\* can fail, and the server then listens where nobody connects.  That is left out.
Start(p) ==
    /\ ~up[p]
    /\ up' = [up EXCEPT ![p] = TRUE]
    /\ UNCHANGED <<own, handlers, console, reading, socket, response, history>>

-----------------------------------------------------------------------------
(* The server: serialize() copies the fields one by one *)

Accept(p) ==
    /\ up[p] /\ reading[p] = <<>>
    /\ socket[Peer(p)].state = "connected"
    /\ reading' = [reading EXCEPT ![p] = <<counter1Metadata[p].positivePayload>>]
    /\ UNCHANGED <<up, own, handlers, console, socket, response, history>>

CopyNegative(p) ==
    /\ up[p] /\ Len(reading[p]) = 1
    /\ reading' = [reading EXCEPT ![p] = Append(@, counter1Metadata[p].negativePayload)]
    /\ UNCHANGED <<up, own, handlers, console, socket, response, history>>

Answer(p) ==
    /\ up[p] /\ Len(reading[p]) = 2
    /\ LET message ==
              [counter |-> [positivePayload |-> reading[p][1],
                            negativePayload |-> reading[p][2],
                            totalPayload |-> counter1Metadata[p].totalPayload],
               set |-> Transferred(set1Metadata[p])]
       IN  socket' = [socket EXCEPT ![Peer(p)] = [state |-> "answered", answer |-> message]]
    /\ reading' = [reading EXCEPT ![p] = <<>>]
    /\ UNCHANGED <<up, own, handlers, console, response, history>>

-----------------------------------------------------------------------------

Console(p) ==
    \/ \E n \in Amount : StorePart(p, n)
    \/ StoreTotal(p)
    \/ \E e \in Element : EditSet(p, e)
    \/ Sync(p)
    \/ Receive(p)
    \/ ReceiveFailed(p)

Server(p) == Accept(p) \/ CopyNegative(p) \/ Answer(p)

Next == \E p \in Proc : Console(p) \/ Server(p) \/ End(p) \/ Start(p)

Spec == Init /\ [][Next]_vars

\* A thread that can take its next step takes it, what has ended is started
\* again, and the user keeps typing "sync" (the thread that would do so every
\* 15 seconds is commented out).
FairSpec ==
    /\ Spec
    /\ \A p \in Proc : /\ WF_vars(Server(p))
                       /\ WF_vars(StoreTotal(p))
                       /\ WF_vars(Receive(p))
                       /\ WF_vars(ReceiveFailed(p))
                       /\ WF_vars(Sync(p))
                       /\ WF_vars(Start(p))

-----------------------------------------------------------------------------
(* Properties *)

IsTable(table, Content) ==
    DOMAIN table \subseteq Proc /\ table \in [DOMAIN table -> Content]

Message == [counter : Metadata, set : SetMetadata]

TypeOK ==
    /\ up \in [Proc -> BOOLEAN]
    /\ counter1Metadata \in [Proc -> Metadata]
    /\ set1Metadata \in [Proc -> SetMetadata]
    /\ DOMAIN counter1 = Proc /\ DOMAIN set1 = Proc
    /\ \A p \in Proc : IsTable(counter1[p], Metadata) /\ IsTable(set1[p], SetMetadata)
    /\ console \in [Proc -> {"idle", "counting", "syncing"}]
    /\ reading \in [Proc -> Seq(T)] /\ \A p \in Proc : Len(reading[p]) <= 2
    /\ socket \in [Proc -> [state : {"closed", "connected", "answered", "failed"},
                            answer : Message \cup {None}]]
    /\ \A p \in Proc : (console[p] = "syncing") = (socket[p].state # "closed")
    /\ response \in [Proc -> Message \cup {None}]
    /\ since \in [Proc -> [latest : Metadata, pending : Metadata]]
    /\ merges \in [Proc -> 0 .. 2]

\* Between commands the handler knows the process's own counter and set exactly
\* as they are: nothing that comes in, however old, gets in between.
OwnEntryCurrent ==
    \A p \in Proc : Idle(p) =>
        /\ IF p \in DOMAIN counter1[p] THEN counter1[p][p] = counter1Metadata[p]
                                       ELSE counter1Metadata[p] = NewMetadata(0)
        /\ IF p \in DOMAIN set1[p] THEN set1[p][p] = set1Metadata[p]
                                   ELSE set1Metadata[p] = NewSetMetadata

\* A sync that got an answer is fresh: the handler knows at least what the other
\* had counted when the sync connected, though the server thread copied the
\* parts at different times and old answers may have been merged since.
SyncIsFresh ==
    \A p \in Proc :
        \/ AtMost(since[p].latest, NewMetadata(0))
        \/ /\ Peer(p) \in DOMAIN counter1[p]
           /\ AtMost(since[p].latest, counter1[p][Peer(p)])

\* A total that was copied between the stores of its part and of the total is
\* wrong in the handler only until the next merge of the same process's state.
TornTotalRepaired ==
    \A p \in Proc : merges[p] >= 2 => Consistent(counter1[p][Peer(p)])

\* While a process runs, its handler neither forgets an id nor lowers a part,
\* though the other may have lost all it counted, and old answers may return.
KnowledgeOnlyGrows ==
    [][\A p \in Proc : up[p] /\ up'[p] => Grows(counter1[p], counter1'[p])]_vars

\* While a process runs, what it has removed it never shows again, whoever
\* inserts it afterwards.
RemovedStaysHidden ==
    [][\A p \in Proc : up[p] /\ up'[p] =>
          \A e \in set1Metadata[p].tombstone : e \notin QueryTwoPSet(set1'[p])]_vars

\* A console that syncs gets its prompt back, or the process ends: no sync waits
\* for ever, whenever the other process ends and whatever the other console does.
SyncTerminates ==
    \A p \in Proc :
        (up[p] /\ console[p] = "syncing") ~> (~up[p] \/ console[p] # "syncing")

\* The processes run from some time on.
StayUp == <>[](\A p \in Proc : up[p])

\* Then what a process has inserted since it was last started reaches both,
\* whatever was lost when it ended before,
InsertedEverywhere ==
    StayUp => <>[](\A p, q \in Proc : set1Metadata[p].payload \subseteq AllInserted(set1[q]))

\* Nobody knows more of a process than it has counted since it was last started.
NothingForgotten ==
    \A p, q \in Proc : p \in DOMAIN counter1[q] => AtMost(counter1[q][p], counter1Metadata[p])

\* both show the same counter, torn totals and stale answers included, unless a process
\* that has ended and counts from zero has not caught up with what the other knows of it,
CountersConverge ==
    StayUp /\ <>[]NothingForgotten =>
        <>[](\A p, q \in Proc : InternalPayload(counter1[p]) = InternalPayload(counter1[q]))

\* and both show the same set.
SetsConverge ==
    StayUp => <>[](\A p, q \in Proc : QueryTwoPSet(set1[p]) = QueryTwoPSet(set1[q]))

=============================================================================
