# A TLA+ model of MergeRDT

MergeRDT (the repository beside this directory) is a header-only C++ library of
conflict-free replicated data types (CRDTs), with three programs that use it.
This directory holds TLA+ modules that model the library and the programs, TLC
configurations that check them on small instances, and proofs that TLAPS checks
for every instance. Paths below are relative to the repository's root.

## 1. The system

### 1.1 The library

Every data type is a pair of classes:

* `XMetadata`: the state one replica has contributed, with an `id`; the
  application updates it, and turns it into a string or a file and back;
* `XSB` (or `XOB`), the *handler*: a table `replica_metadata: id -> XMetadata`
  and one or more cached aggregates of it (`payload`, `tombstone`).

All handlers work alike. `addExternalReplica(vector<XMetadata>)` merges each
metadata into the entry of its id, or inserts it when the id is new, and then
recomputes the caches (`updateInternalPayload`). `updateLocalExternalPayload`
does the same with every entry of other handlers. The library has no transport
and no clock: the application decides when a snapshot is taken and when,
in which order and how often it is delivered. It has no locks either.

| component | state | operations | what makes it correct | what is hard |
|---|---|---|---|---|
| PNCounter, `src/state_based/PNCounterSB.hpp` | two parts and a total per id; cached sum | increase, decrease (on metadata or through the handler), merge by larger part, sum of totals | entries are states their writers have had, never go back; all handlers reach one sum | stale, repeated and reordered snapshots; several writers under one id; an uninitialised total; a cache that the handler's own updates do not refresh; unsigned wrap-around |
| TwoPSet, `src/state_based/TwoPSetSB.hpp` | inserted and removed elements per id; their unions | insert, remove, union of both, query | what is removed stays removed, everywhere | removal before insertion; two serialisations that disagree about the tombstones |
| GCounter, `GCounterSB.hpp` | a count per id; sum | count up, merge by maximum | as the PNCounter | negative amounts are accepted and undone by the next merge |
| GSet, `GSetSB.hpp` | a set per id; union | insert, union | all handlers reach one set | stale cache after an insert through the handler |
| ORSet, `ORSetSB.hpp` | a sorted vector per id (there are no tags) | insert, remove, merge with a list of removed elements | who is told what was removed catches up | removal that is not handed on is undone by the next merge |
| LWWMultiSet, `LWWMultiSetSB.hpp` | elements by timestamp | insert, remove, merge by later timestamp | the latest write wins everywhere | ties; timestamps cut to 32 bits; an uninitialised clock |
| Vector, `VectorSB.hpp` | a sequence per id | push, merge | all handlers reach one sequence | merge assumes sorted vectors |
| PriorityQueue, `PriorityQueueSB.hpp` | a queue per id | push, merge | an element that was pushed n times is in every queue n times | an element must not be counted again with every delivery |
| MultiSet, `MultiSetSB.hpp` | counts and tombstones per id | insert, remove, merge | as the TwoPSet | two of its three serialisations leave out the tombstones |
| TwoPTwoPGraph, `TwoPTwoPGraphSB.hpp` | vertices and edges, added and removed | add and remove both, merge | edges join known vertices | no preconditions on removal |
| GMap, `GMapSB.hpp` | a map of numbers or texts per id; beside the table a merged map per id and one of all | insert, increase, merge per key | the greatest value given for a key is shown | the table takes an incoming map as it is and may go back; the merge of two handlers reaches the caches only |
| string, `operation_based/StringOB.hpp` | a text per id | insert, merge texts (erase does not compile) | all handlers reach the same characters | the longer text is kept and what the shorter has more of is inserted, so places depend on the order of merges; an insertion at the end fills in a zero character |
| counter, `operation_based/CounterOB.hpp` | - | - | - | an abstract class that cannot be instantiated |

### 1.2 The programs

* **Networking application** (`src/networking_application/replica.cpp`): a
  process per user on one machine, ports 2020 and 2021. The console thread
  executes commands; "sync" connects to the other process, waits for the state
  of all its metadata objects and merges it. A server thread answers such
  connections with the process's own metadata. The threads share the metadata
  objects without a lock, nothing is kept on disk, and no result of `connect`,
  `recv` or `accept` is checked.
* **Trello application** (`src/trello_application/main.cpp`): a GUI process per
  user, any number of which share one directory. An account is a text file named
  by user name and password; its fourth line is the user's status, 1 while he is
  logged in, which is meant to keep him from logging in twice. Changing it
  (`setUserStatus`) copies the file, removes it and renames the copy, without a
  lock. A process has five boards. For each it keeps a list (the MultiSet
  metadata it writes to), a server (the handler) and a PNCounter of the tasks
  shown, and for all of them one priority list, a GMap of texts. After every
  edit (`createBoard`, `deleteBoard`) it writes the list to a file of the board
  and the user's name; `convergeBoard`, at a login and on request, gives the
  files of all users to the servers, and `updateTableMaster` recounts what is
  shown. Lists, servers and ids are global: they outlive a logout, and they are
  empty when a process starts.
* **Database application** (`src/database_application/main.cpp`): the same
  program, which also creates tables for its user at every login and exits when
  that fails, and sends every edit to a SQL server, from which it reads nothing.
* `src/database/driver.cpp` (calls of a SQL client), `src/CrdtObject.hpp`,
  `src/CrdtHandle.hpp`, `src/Server.hpp` (interfaces and stubs), `src/json.hpp`
  (vendored), tests, benchmarks: not modelled; they hold no state of the system.

`PROJECT.json` lists the components with their status, and under "hazards" what
is hard to test, at the line where it bites, with the properties about it.

## 2. The modules

    data (metadata, merge, query)   state machine    instance for TLC

    PNCounterData                   PNCounterSB      MCPNCounterSB
    PNCounterData, TwoPSetData      ReplicaApp       MCReplicaApp
    StateTypesData (, TwoPSetData)  StateTypes       MCStateTypes
    StateTypesData, PNCounterData   Boards           MCBoards
    -                               Sessions         MCSessions

    abstract specification          OwnerVersions (implemented by PNCounterSB)
    theorems                        PNCounterSB_proofs, PNCounterVersions_proofs,
                                    ReplicaApp_proofs, StateTypes_proofs,
                                    Boards_proofs, Sessions_proofs
    lemmas about the data           PNCounterData_proofs, StateTypesData_proofs

**PNCounterData** translates class `PNCounterMetadata` and the loop bodies of
`PNCounterSB`. A number of the payload type is a residue modulo `Modulus`
(2^w; the model needs only that it is positive), so unsigned wrap-around is
part of the model. `FixConflict` is the merge of an incoming with a known
metadata, `Merged` one turn of the loop of `addExternalReplica`.

**PNCounterSB** is the counter in use: each replica has a handler and a writer.
A writer updates a metadata object beside the handler (`UpdateMetadata`), as the
tests and programs do, or the entry inside its handler (`UpdateHandler`). `log[r]`
keeps every state writer r has had, and `AddExternalReplica(s, r, k)` may
deliver any of them to any handler at any time: late, repeated, reordered or
never. `UpdateLocalExternalPayload(s, t)` merges a whole handler. Ids are a
function of the replicas, so own and shared ids are both instances. A
constructor that is given only an id leaves the total uninitialised: a choice
from `Garbage`.

**OwnerVersions** is the abstract specification: owners publish versions,
replicas learn published versions and never go back. `PNCounterSB` implements
it for the replicas whose id nobody else uses: `version[r]` is the length of
the writer's log, `view[s][r]` the place in that log at which the entry's parts
stand.

**TwoPSetData** translates `TwoPSetMetadata` and `TwoPSetSB`. `Transferred` is
what `deserialize(serialize(md))` makes of a metadata: the tombstones are
written as "tombstome" and looked for as "tombstone", so they are gone.

**ReplicaApp** is the networking application. One action per command of the
console, except where the two threads can be seen to interleave: counting is
two stores (part, then total), and the server copies part, part and total one
after the other. `Sync` is the code up to `recv`; `Receive` and `ReceiveFailed`
are what follows. After a failed `recv` the buffer is parsed as it is in memory:
the model lets an answer of an earlier sync be merged again, or the process end
by the parser's exception. `End` is "exit", a crash, or the user closing the
terminal; all state of the process is lost, and `Start` begins from nothing,
with a server that can be reached.
`since` and `merges` are history variables, read by no action.

The stores are taken to happen in program order, which is what a compiler that
does not reorder them makes of them (the build files ask for no optimisation).
A copy of a set during an insertion is undefined in C++; the model copies sets
in one step and counts what else may happen among the crashes of `End`.

**StateTypesData** and **StateTypes** treat the other types, whose handlers have
the same form as the counter's: GCounter, GSet, TwoPSet, MultiSet, PriorityQueue,
TwoPTwoPGraph, Vector, LWWMultiSet, ORSet, GMap and the string. StateTypesData
has, per type, what each operation does to a metadata, how two metadata of one id
are merged, and what is cached of a table. StateTypes is the machine they share,
with the same deliveries as PNCounterSB; `type` is chosen at the start and never
changes. Where the types differ in control, the machine says so: which handlers
have operations of their own (`WritableHandler`), which of these refresh the
cache (`Refreshing`), and that graphs cannot be merged handler by handler. A
TwoPSet handler's `insert(id, values)` is an action of its own
(`InsertIntoCache`): it writes into the cache and nowhere else. A
multiset is a function from elements to numbers of copies, and so are a priority
queue, which differs from it only in how it is read, and an ORSet, which is a
sorted vector. Of the maps time -> multiset of a LWWMultiSet only the slices of
the current time are kept: no operation reads an earlier one, except to begin a
later one. An operation on a list of values is the operation on each of them.

Three types leave the common form. A merge of ORSets takes a list of removed
values from its caller; the model lets a caller hand over nothing, or just what
the writer has taken out since one of its earlier states (`Lists`). A map of
numbers (GMap) enters the table as it is, even when an older one replaces a newer
one; what is merged are two caches, a map per id and one of all, and what a
handler merges from another goes into these only. So a map handler passes on
fewer states than it knows (`PassedOn`), and the properties about tables leave
maps out, as they leave out ORSets, whose tables depend on the lists. A text is a
sequence of elements, and 0 is the zero byte that `resize()` fills in.
`FixTextConflict` says in a few lines what `StringOB::fixConflict` does with its
five maps and a set (the longer text, or the incoming one, with the characters the
other has more of put in), for texts of printable characters other than blanks.

Vectors are appended to in ascending order where `Sorted` holds, and every write
of a LWWMultiSet by one replica is at a later time than its last: these are the
conditions under which the two types keep what the others keep unconditionally,
and `vector_order` and `lww_ties` show what happens without them.

**Sessions** is about who is logged in to the two GUI programs, over the account
files they share. The three steps of `setUserStatus` (`Copy`, `RemoveOld`,
`Rename`) are actions, and so are the two halves of creating an account; between
any two of them other processes may act, or the process end. What follows a
change of status (`Continue`) is kept as data: closing a window changes it
twice, in the event loop and at the end of main(). `Enter` is where the programs
differ: the database application connects and creates tables named after the
user, both external, and exits if either fails. Only the table of counters is
kept: it is never dropped, so a second session of the user name cannot create it.
The table of tasks is dropped and created again by whoever draws his board, which
is always a process that has created the table of counters; what matters of it is
that these statements can fail too, and the process then exits (`StatementFails`).

Three history variables name the accounts that some property leaves out:
`abandoned`, which a process has left without resetting the status; `raced`, which
a process has begun to change while another was in the middle of changing it; and
`ousted`, whose status was reset by a window closed after a logout, while another
process was on the board. None is added to by what a correct check of the status
prevents: a login over a session that is not just changing the account adds nothing.

**Boards** is what the users then do. A process is between two events (`Idle`), has
opened a file that it is about to write ("save": the file is empty until `Save`), reads
the files of all users one after the other ("converge"), or is about to show the boards
("show"); a login has found status 0 before it sets it ("login"), so two processes
may log in to one account. Closing a window resets the status of the account last
logged in (`endUser`), also after a logout. A process that meets a file in the state `Torn` ends, by the parser's
exception. The ids of lists and counters are those of the last login that got
to its end, `memory[p].id`. An account's id is what is read back from its file:
"Create Account" writes a hash of 64 bits, and reading it into 32 bits fails and
gives 2^32 - 1 for every account, so that the accounts may have one id (`Naming`).
`created`, `overwritten` and `carried` are history variables. Files are named
by user name alone. What `Sessions` is about is not repeated: a status is set in one
step, and no account is lost. That an edit puts the task on the priority list before
`updateTableMaster` clears it is left out, and "Merge", which runs `convergeBoard`
twice, runs it once.

Definitions that begin with the comment "Mutant" are not part of the model: each
is a plausible bug with which some property is shown to fail.

## 3. The runs

| run | instance | what it shows |
|---|---|---|
| `pncounter_versions` | 2 replicas with own ids, one counting through its handler, one with an uninitialised total; amounts 1 and 2; 2 updates each; all snapshots deliverable for ever; modulus 8 | `EntryIsPastState`: an entry is always one state the writer has been in, so no handler sees an increase without an earlier decrease; `TablesOnlyGrow`; `GarbageIsContained`: an uninitialised total vanishes at the first update or merge; `PayloadLagsOwnUpdatesOnly`: the cached sum differs from the table only by the handler's own updates since its last merge; `ImplementsVersions` |
| `pncounter_conflict` | both under one id, polled fairly | `EntryFromWriters`: the parts are parts some writer of the id has had (not sums); `Converges`: all handlers reach the sum of the merged latest states |
| `replica_counters` | two processes, one counts up to 2 (again after each restart) and may end and restart, the other syncs | `SyncIsFresh`: an answered sync brings at least what the other had counted when it connected; `TornTotalRepaired`: a total copied between the two stores is wrong only until the next merge; `OwnEntryCurrent`, `KnowledgeOnlyGrows`; `CountersConverge`: both show one counter, torn totals and stale answers included, unless a process that came back has not caught up with what the other knows of it (`NothingForgotten`): it counts from zero, and nobody tells it |
| `replica_sets` | two processes insert and remove one element, both sync, one may end | `RemovedStaysHidden`, `SyncTerminates` (two consoles syncing with each other do not wait for ever), `InsertedEverywhere` |
| `replica_removal` | as `replica_sets`, none ends | **violated:** `SetsConverge`. The removal stays with the process that removed, since serialize() and deserialize() disagree about the name of the tombstones (`TwoPSetSB.hpp:81` and `:109`); README.md:42 promises strong eventual consistency |
| `state_types` | each of the eleven types, 2 replicas with own ids or one id, one writing through its handler where the type allows it; elements 1 and 2; a writes twice, b once (or the other way round for ORSet and TwoPSet, both once for GMap); a's times 1 and 3, b's 2 | `SameStatesSameTable`: handlers that have been given the same states have the same tables (of texts, the same characters), whatever the order, repetition and way of delivery; `EntryIsLatest`: late and repeated states of a sole writer change nothing; `TablesOnlyGrow`; `CacheLagsOwnWritesOnly`; `RemovedStaysHidden`: a tombstone that has arrived hides its element under every id; `GreatestValueWins`: a map handler shows the greatest value of a key it was ever given, though its table goes back; `ORSetCatchesUp`: an ORSet handler that is told what was removed in between reaches the writer's later state |
| `sessions` | two processes, each running either program, two accounts of one user name (both used at p1, one also at p2); p2 may crash at any point | `StatusIsSession`: status 1 keeps all but one off the board of an account, as long as no two processes are in the middle of changing it at one time (`raced`) and no window closed after a logout has reset it (`ousted`), and in any case status 1 means a session or a process that ended without resetting it; `AccountSurvives`: one of the two files of an account always has its lines, unless it was raced for or abandoned; `OneDatabaseSession`: the table of counters keeps two database applications of one user name apart, where the status does not; `AccountsBecomeFree`: nobody is locked out for ever, but by a process that ended or a race |
| `sessions_online` | the same, nobody is killed | **violated:** `OnlineIsShown`. A statement of a database application fails, it exits (`database_application/main.cpp:1463`) and leaves status 1: the user is shown online and is on no board; README.md:878 promises a list of "who else is online". Three other ways to the same disagreement, which the properties of `sessions` leave out, are in the model: a killed process; a window closed after a logout, which resets the status of somebody who has logged in elsewhere (`main.cpp:1370`); and two logins at one time, of which one removes the file the other has renamed (`main.cpp:159`) |
| `boards_merge` | two processes; bob at p2, alice and bob at p1, which may crash at any point; own ids or one id; one board; a task created at p1 and one at p2, of one urgency | `CountIsShown`: the number below a board is that of the tasks on it, under whichever ids it was counted; `PriorityOfShown`: the priority list has the words of all tasks shown and no others; `NoTaskTwice`: no task is shown more often than it was created, however often the files are merged (unless a list was taken over by the next user of a process); `DeletedStaysHidden`; `FilesReachAll`: what is in a file reaches everybody who stays, deletions included; `BoardsConverge`: all then show the same boards, if no file has lost what was saved in it |
| `boards_restart` | alice at p1, where both tasks are created, bob at p2, nobody crashes | **violated:** `RestartsConverge`. alice saves a task, closes her window, comes back and saves another: her file has lost the first (`main.cpp:798`), which one of them shows and the other never does. README.md:43 promises convergence when she comes back |
| `vector_order` | a vector, one writer, any order of appending | **violated:** `ElementsKeepOrder`. Merging <<2>> with its successor <<2, 1>> gives <<1, 2>>: `std::merge` takes both for sorted (`VectorSB.hpp:237`); README.md:619 promises that "Elements are put in the order they come in" |
| `lww_ties` | a LWWMultiSet, two writers of one id, both at time 1 | **violated:** `SameStatesSameTable`. Each handler keeps the write it was given first (`LWWMultiSetSB.hpp:506`); README.md:42 promises strong eventual consistency |

**Bounds.** `MaxUpdates` and `MaxCount` bound the updates of a writer; two are
enough for a handler to hold an older state, be given a newer and be given the
older again, and for an increase and a decrease that belong together. Amounts 1
and 2 make an overtaking between writers of one id possible (1+1 against 2).
Modulus 8 or 16 lets totals be negative and wrap, and no part wrap: a part that
wraps breaks any counter that merges by maximum, and the model's guards leave
that out (a counter that overflows its type is outside what the library promises).
With two replicas every delivery is to oneself or to the other; the theorems
below are for any number of replicas, elements and updates, so what the bounds cannot show
of the properties they state is shown there. In `state_types`, two elements and two writes make
a multiset hold an element twice or two elements once, one of them removed, and
the third write, of the other replica, meets both of the first's under one id.
To a map each replica writes once, which is enough for two maps of one id, or a
map and its state before the write, to replace each other in either order. A
handler inserts into a TwoPSet's cache once between two merges. Graphs have one vertex and its loop: vertices and edges do not meet in
the code, and the sets of two elements are those of the TwoPSet. 

In `sessions` nothing is bounded: the files have finitely many contents. One
process that crashes is enough to find every account abandoned, and the other
meets what it left behind; that a statement fails needs no bound. In `boards_merge`, p1 edits twice and its users log in
twice, p2 edits and logs in once (`MaxEdits`, `MaxLogins`): p1 can create and
delete a task, restart and overwrite what it had saved, or let its second user
take over the lists of the first, while p2 has bob's file in another state. Two
tasks are enough for one to be created by both users, at p1 one after the other, and for
one to share an urgency with the other; the five boards use the same code on separate variables and meet only in
the priority list, so there is one here. Counters stay below the modulus, 16.

None of the systems stops, and deadlock is checked in every run.

**Fairness.** `PNCounterSB!FairSpec`: every handler keeps being given the latest
state of every writer; that is the use the tests make (rounds of
`updateLocalExternalPayload`) and what the polling thread of `replica.cpp`
(206-213) does. That thread is commented out (238), so in `ReplicaApp!FairSpec`
the user keeps typing "sync", threads that can move move, and what has ended is
started again; nothing is assumed of counting, inserting or ending.
`Sessions!FairSpec`: a file operation that was begun goes on (weak fairness), and
whoever is logged in logs out at some time, though he may open and close the
window of addBoard, during which he cannot, again and again (strong fairness).
`Boards!FairSpec`: a process that is in the middle of something comes to its end
(a plain `[]<>`, since what it has begun is a few steps without a loop), and users
keep pressing "Merge". The thread that would do so every ten seconds is commented
out (`main.cpp:1342-1349`).

## 4. What is proved

`PNCounterSB_proofs` and `PNCounterVersions_proofs` prove, for any number of replicas,
ids, amounts, updates, any modulus, and any choice of who shares ids, who counts
through the handler and who is constructed without a total (the assumptions are
the ASSUMEs of `PNCounterData` and `PNCounterSB`):

| theorem | statement |
|---|---|
| `TypeCorrect` | tables hold metadata within the payload type |
| `EntriesFromWriters` | the parts of an entry are parts writers of its id have had |
| `EntriesArePastStates` | under an id of its own, an entry is one state of its writer |
| `GarbageContained` | every entry has a consistent total or is an untouched initial one |
| `TablesGrow` | no step makes a handler forget an id or lower a part |
| `PayloadLags` | the cached sum is that of the table; only in a handler that is counted through can it differ, and, if nobody shares its id, only by counting the own entry as it was earlier |
| `VersionsImplemented` | `PNCounterSB` implements `OwnerVersions` |

None of these is inductive by itself: for instance, that the merge of two entries is a past
state needs the states of a writer to be a chain. The inductive invariant `IInv`
has four parts: `TypeOK`; `LogInv`, each log is a chain in which one part grows
with each step and every state but the first has a consistent total; `WriterInv`,
a writer's latest state is its metadata object or lies at or below its handler's
entry (which is above it when others count under the id); and `EntryInv`, every
entry is within what its writers had. One lemma per action shows that IInv is kept, all
of them through `FixConflictType` (a merge is the larger of each part, with their
difference as total), `MergePast` (on a chain it is the later state) and
`GrowStep` (a handler may take any table whose entries are good and no lower).

`PayloadLags` is about a sum over a table. It needs `OwnTotalInv` besides: an entry
of a writer that has its id to itself has the total of its parts, or is what the
writer was constructed with. So a merge, which computes the total anew, changes
nothing in the totals already there, and counting through the handler leaves
a cache that counts the own entry in a state its writer has had.

The refinement defines `view` with CHOOSE. `ViewInv` says what it stands for
(the one place in the log with the entry's parts, by `PlaceUnique`), and each
action is then a `Publish`, a `Learn` or a stutter.

`ReplicaApp_proofs` proves, for any payload type, amounts, elements and bounds,
whichever process may count, insert, sync or end (the assumptions are those of
`PNCounterData`, `ProcAssumption`, that there are two processes as there are two
ports, and `ConsoleAssumption`):

| theorem | statement |
|---|---|
| `TypeCorrect` | types |
| `OwnEntriesCurrent` | between two commands the handler has the process's own counter and set as they are, whatever old answers were merged since |
| `SyncsAreFresh` | an answered sync knows at least what the other had counted when it connected |
| `TornTotalsRepaired` | a total copied between two stores is gone with the second merge |
| `KnowledgeGrows` | while a process runs, its handler forgets no id and lowers no part |
| `RemovedHidden` | what a process has removed never shows in its handler again |

`LinkInv` says how far the server has come with the connection of the other's
console, and that neither waits for a process that has ended. `OwnInv`
says of each point of a command by how much the metadata is ahead of the handler
(between the two stores of a count, by the part). `PendingInv` is `SyncIsFresh`
for an answer on its way: what the console had to learn is in the other's metadata, in each
part that the server has copied of it, and then in the answer.
`RepairInv` counts merges: after one the other's entry is there, after two it has
the total of its parts.

`StateTypes_proofs` proves, for any number of replicas, elements, ids and writes,
whoever shares ids and whoever writes through a handler (the assumptions are the
ASSUMEs of `StateTypesData` and `StateTypes`):

| theorem | of | statement |
|---|---|---|
| `TypeCorrect` | all types | types |
| `SameStatesAgree` | all but ORSet and GMap; writers of a LWWMultiSet under one id at different times, vectors appended to in order | `SameStatesSameTable`: handlers that were given the same states have the same tables (of texts, the same characters) |
| `EntriesAreLatest` | the same | `EntryIsLatest`; of texts too, letter by letter |
| `TablesGrow` | the same | `TablesOnlyGrow`: a handler forgets no id and loses nothing an entry has taken in |
| `SortedVectorsKeepOrder` | Vector, appended to in order | `ElementsKeepOrder`, which the run `vector_order` shows broken without that condition |
| `CachesLagOwnWritesOnly` | all types; vectors appended to in order | the cache is that of the table, but for the handler's own writes since |
| `RemovedHidden` | all types that have tombstones | `RemovedStaysHidden` |
| `GreatestWins` | GMap | `GreatestValueWins` |
| `ORSetsCatchUp` | ORSet | `ORSetCatchesUp`: who is told what was removed in between reaches the writer's set |

The two conditions (`Settled` in the module) are not for the proof: without them the
runs `lww_ties` and `vector_order` have counterexamples. Nor is the restriction of the
tables' properties to types whose merge needs no list and is applied to the table
(`OrderFree`), which stands in the properties.

The argument is that of a join semilattice. `Leq` is, for each type, the order
of which its merge is the least upper bound: parts, counts and sets
grow, the later time wins. `ChainInv`: the log of a writer is a chain in that order. `LubInv`: an
entry is a least upper bound of the states of its id the handler was given. A least
upper bound does not depend on the order or the number of deliveries, and any two of
them are equivalent, so that `SameStatesAgree` follows, and `EntriesAreLatest` because the greatest
of a chain is its least upper bound. `TimesInv` (each write carries a time of its
writer) is what makes two writes at one time the same write. `HeldInv` says that
maps and LWWMultiSets in a table are states that were given; `WriterInv` ties a
writer's latest state to its metadata object, or its handler's entry. `MapInv` is
about a map handler's caches: all that came from elsewhere lies below the map of all,
and every value in a cache was given. Since the map handler takes a maximum over
what it was given, `GreatestWins` needs that this is a finite set (`FiniteInv`).

Of vectors and texts the order is by the number of each element (`FewerOf`), which is
a preorder only: it says nothing of places. So two more invariants are needed to get from
equivalent entries to equal ones. `SortedInv`: a vector that is appended to in order is
ascending, and so is a merge of ascending vectors; ascending sequences with the same
elements are equal (`AscendingEqual`). `TextInv`: the texts of a writer that has its
id to itself get longer with every insertion, and the entry is one of them; of two texts of
a chain, `fixConflict` keeps the longer and has nothing to put into it. For handlers that
share an id no such thing holds, and the places of characters do depend on the order
of merges; that is why `SameStatesSameTable` compares characters.

That the merges of sequences are least upper bounds is proved in `StateTypesData_proofs` for all sequences:
`MergedRangesFacts` (`std::merge`, a recursive function of two lengths, has the elements of both,
and sorts what is sorted), `RemoveFirstFacts` and `FixLocalConflictFacts` (the
walk over both vectors, a fold, leaves of each element the larger number),
`PutInFacts` and `FixTextConflictFacts` (a fold over the elements that the other text has more of).

An ORSet's entries depend on the lists its callers hand over, and are no least
upper bounds. `ORSetsCatchUp` is about one step, from an entry that is a state of the writer:
`CatchUpFacts` takes the writer's removals between two of its states one by one.

`Boards_proofs` proves, for any number of processes, accounts, boards and tasks,
whoever shares names or ids and whichever processes may crash (the assumptions are
`BoardAssumption` and `ElementAssumption`):

| theorem | statement |
|---|---|
| `TypeCorrect` | types; the account a closed window resets is that of who is logged in; a process is busy only while somebody is |
| `CountsShown` | the number below a board is that of the tasks on it |
| `PrioritiesShown` | the priority list has the words of all tasks shown and no others |
| `DeletedHidden` | a task that a process has seen deleted is not shown by it again while it runs |
| `TasksOnce` | no task is shown more often than it was created, if no user has taken over the lists of another |

`LinkInv` ties memory to who is logged in: the id is that of the user, except
during a login, when the lists are new or taken over; a process that has no id
yet has written nothing. Two processes may have one user, and then write under one
id: that is no harm, since merged lists of one id have the most copies of both, which
no list has more of than its process created. `CountsShown`
is about the sum of counters that `updateTableMaster` has just cleared, under ids
of earlier users too: each is zero, but for that of the user, which
then counts what is shown. `PrioritiesShown` is about the three maps of words that one `GMap` keeps
(the list, the map of its id and that of all): `PriorityInv` says that each has the numbers of the tasks
shown and words of such tasks only, and the two merged ones have all their words. It needs
that `ShownInOrder` names the tasks shown and no others (`ShownInOrderFacts`), and that adding tasks one by one,
board by board, adds up to the words of all (`ShownPrioritiesFacts`). `TasksOnce` has the least obvious invariant, `MostInv`: for each
task of a board there are numbers, one per id, whose sum is at most how often it was
created, such that no list, server or file anywhere has more copies under an id than its
number. Creating a task raises one number; saving, reading, merging by maximum,
crashing and starting again need none raised. When a list is taken over, its copies
come under a second id, and no such numbers need exist; that is what `carried` says.

`Sessions_proofs` proves, for any number of processes, accounts and user names,
whoever knows which account and whichever processes may crash (the assumption is
`SessionAssumption`, which says what the constants are):

| theorem | statement |
|---|---|
| `TypeCorrect` | types; nobody changes a file before a login; a window that is off does nothing |
| `StatusCorrect` | `StatusIsSession`: the status check keeps all but one off an account that nobody races for or has reset late, and no status 1 is left behind but by a process that ended |
| `AccountsSurvive` | `AccountSurvives`: no change of status loses an account |
| `DatabaseSessionsApart` | no two database applications are logged in under one user name |

`StatusIsSession` speaks of accounts that nobody is changing, so it says nothing
in the middle of a change. The inductive `StatusInv` does: at most one process is in the
middle of changing an account (`OneChange`, which the history `raced` provides, by
`OverlapAlone`); at most one is on its board or changing it (`OneActive`), because a
login finds status 0 and whoever is on the board, and not changing it, has status 1
(`BoardInv`) - a login that did not read the status would break this; a change finds and
leaves in the output file what it writes (`SetInv`, `ResetInv`); and a status 1
has somebody on the board or at work (`BusyInv`). A late close breaks `OneActive`, `SetInv`
and `BoardInv`, which therefore leave out `ousted`, but not the others.
`ScreenInv` says which status is written from which screen. `AccountsSurvive`
needs `KeepInv` as well: the output file has a status exactly while somebody has
still to rename it, and the file has one unless somebody is about to.
`DatabaseSessionsApart` rests on `TableInv`, that who is on the board of a
database application has tables, and on nothing about files, so races do not
weaken it.

What a cache shows is a fold over the ids of a table. `StateTypesData_proofs` proves
what those proofs need of such sums (`SumExtended`, `SumOrder`, `SumOfZeros`,
`SumOfOneMore`). It reasons not with the library's induction theorems, which take an
operator, but from the well-foundedness of the subsets of a finite set: of the subsets
for which a statement fails, one is minimal (`MinimalSubset`, `SubsetInduction`).

**Only model-checked** is liveness, which rests on ENABLED: `Converges`, `SyncTerminates`,
`InsertedEverywhere`, `CountersConverge`, `AccountsBecomeFree`, `FilesReachAll` and
`BoardsConverge`. Every other property of a run that passes is a theorem. The
properties of runs that are violated are what the repository's README says, and the
counterexamples are what the code does.

## 5. What is not modelled

* The abstract counter CounterOB, which no program can instantiate.
* Of the modelled types: `exportDB` and `importDB`; `updateExternalPayload`, which
  does not compile when it is instantiated, nor do the TwoPSet handler's
  `insert(id, value)` and the string's `erase`; `clear` and `setStringTo` of the
  string, `clear` of the vector, `updateDecrease` of a map; strings and files other
  than those of PNCounter, TwoPSet and the boards' multisets; two writes of one
  LWWMultiSet writer at the same time, and times beyond 32 bits; payloads that
  overflow while they grow; negative amounts for a GCounter; a list of removed
  values that the writer has not removed; texts with blanks, which are trimmed.
* In the networking application: the commands for the other six types, which take
  the same path through console, socket and server; answers longer than the
  buffer; sockets that are never closed; a server whose `bind`, which is not checked
  (`replica.cpp:77`), fails because its process ended in the middle of a sync shortly
  before, and which then listens where nobody connects; the memory effects of a data race on
  a `std::set` or a `std::string`, which are counted among the crashes.
* In the GUI programs: the windows themselves (about half of their lines place
  buttons and labels), the list of users online beyond the status
  it is made of, the files of counters and
  priorities, which the programs write and never read (the code is commented
  out), a disk that fails, and what the statements sent to the SQL server write (that
  they can fail is modelled).
* In `Boards`, the three steps of setting a status and the loss of accounts that comes of
  them, which are in `Sessions`.
* The SQL client, the JSON library, the tests and benchmarks.

More than two thirds of the repository's lines of C++ are `src/json.hpp`, a vendored library
(22,109 of 32,052), and much of the rest is layout of windows and benchmarks.

## 6. Plan

What could be modelled next, in this order:

1. `ReplicaApp`: bounded sockets and buffer; the GCounter, whose replicas all
   share id 0.
2. `StateTypes`: several writes of a LWWMultiSet at one time, whose tombstones are
   then applied twice.
3. The tables of the database application against what its user sees.
