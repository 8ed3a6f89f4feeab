------------------------------- MODULE Boards -------------------------------
(***************************************************************************)
(* The boards of the Trello application, src/trello_application/main.cpp:  *)
(* what users create and delete, save, merge and see.                      *)
(*                                                                         *)
(* A process has, for every board, a list (the metadata it writes to) and  *)
(* a server (the handler), both of a MultiSet, and a counter of the tasks  *)
(* it shows; and one priority list for all boards.  After every edit it    *)
(* writes the list to the file of the board and of its user's name, and it *)
(* merges the files of all users when somebody logs in or asks for it.     *)
(*                                                                         *)
(* Who is logged in is kept as in module Sessions, without the files that  *)
(* module is about: a status is set in one step here.  A login reads it and*)
(* sets it in two, and a window closed after a logout resets it, so one    *)
(* user may be on the board of two processes.                              *)
(***************************************************************************)
EXTENDS StateTypesData

CONSTANTS
    Process,   \* the processes, each with a window
    Account,   \* the accounts
    userName,  \* the user name of each, which names its files
    Naming,    \* the ways the accounts may have got their ids
    Uses,      \* per process, the accounts its users know
    MayCrash,  \* the processes that may end at any point
    Boards,    \* the boards, in the order in which their files are read
    urgency,   \* per task (an Element) the number it begins with
    words,     \* and the words it consists of
    Plans,     \* per process, the tasks its users create
    MaxEdits,  \* per process, a bound on the tasks created and deleted
    MaxLogins, \* per process, a bound on the logins
    Modulus,   \* that of the counters
    None       \* no account

Board == Range(Boards)
Name == Range(userName)

ASSUME BoardAssumption ==
    /\ IsFiniteSet(Account) /\ None \notin Account
    /\ DOMAIN userName = Account
    /\ Naming \subseteq [Account -> Nat \ {0}]
    /\ Uses \in [Process -> SUBSET Account]
    /\ MayCrash \subseteq Process
    /\ Boards \in Seq(Board) /\ Len(Boards) > 0
    /\ urgency \in [Element -> Int] /\ DOMAIN words = Element
    /\ Plans \in [Process -> SUBSET Element]
    /\ MaxEdits \in [Process -> Nat] /\ MaxLogins \in [Process -> Nat]
    /\ Modulus \in Nat \ {0}

Counter == INSTANCE PNCounterData

VARIABLES
    uniqueID,    \* the id of each account
    json,        \* the files of the boards
    online,      \* the accounts with status 1
    loggedIn,    \* per process, the account that is on its board
    endUser,     \* per process, the account it last logged in
    memory,      \* per process, its lists, servers, counters and priority list
    doing,       \* per process, what it is in the middle of
    edits,       \* per process, how many tasks it has created or deleted
    logins,      \* and how often somebody has logged in
    created,     \* history: how often each task was created on each board
    overwritten, \* history: whether a file has lost what was saved in it
    carried      \* history: whether a user's list was taken over by another

vars == <<uniqueID, json, online, loggedIn, endUser, memory, doing, edits, logins, created,
          overwritten, carried>>

-----------------------------------------------------------------------------
(* What a process has in memory *)

NoFile == [status |-> "none"]
Torn == [status |-> "torn"]

\* Mutant: the file is written without the tombstones.
SavedPayload(i, md) ==
    [status |-> "saved", id |-> i, list |-> [md EXCEPT !.tombstone = NoCopies]]

\* serializeFileApp writes the id, the payload and the tombstones.
Saved(i, md) == [status |-> "saved", id |-> i, list |-> md]

\* Mutants: a list of a known id stays out; its copies are added to the known ones.
NewListsOnly(table, i, md) ==
    [j \in DOMAIN table \cup {i} |-> IF j \in DOMAIN table THEN table[j] ELSE md]

AddedLists(table, i, md) ==
    [j \in DOMAIN table \cup {i} |->
        IF j # i THEN table[j]
        ELSE IF i \in DOMAIN table
             THEN [md EXCEPT !.payload = [e \in Element |-> @[e] + table[i].payload[e]]]
             ELSE md]

\* A list that is given to a server.
MergedLists(table, i, md) ==
    [j \in DOMAIN table \cup {i} |->
        IF j # i THEN table[j]
        ELSE IF i \in DOMAIN table THEN MostCopiesOfBoth(table[i], md) ELSE md]

Tasks(server) == QueryMultiset(CachedMultiSet(server))

HowMany(bag) == SumFunction(bag)

NewPriorities == [list |-> <<>>, payload |-> <<>>, total |-> <<>>]

\* Word by word the union of what two maps say of a number.
JoinedWords(map1, map2) ==
    [u \in DOMAIN map1 \cup DOMAIN map2 |->
        (IF u \in DOMAIN map1 THEN map1[u] ELSE {}) \cup (IF u \in DOMAIN map2 THEN map2[u] ELSE {})]

\* The task overwrites what its number had in the list, and the list is given to the
\* server, which joins it with what it holds of that list, and both with its total.
InsertPriority(prio, task) ==
    LET list == [u \in DOMAIN prio.list \cup {urgency[task]} |->
                    IF u = urgency[task] THEN words[task] ELSE prio.list[u]]
        fixed == [u \in DOMAIN list |->
                     IF u \in DOMAIN prio.payload THEN prio.payload[u] \cup list[u] ELSE list[u]]
    IN  [list |-> list, payload |-> fixed,
         total |-> JoinedWords(JoinedWords(prio.total, list), fixed)]

\* Mutant: the total stays.
ClearedListsOnly(prio) == [NewPriorities EXCEPT !.total = prio.total]

ClearedPriorities(prio) == NewPriorities

\* Mutant: only the sum that is cached is cleared.
KeptCounters(table) == table

ClearedCounters(table) == [i \in DOMAIN table |-> Counter!NewMetadata(0)]

\* The counter is increased by one for each task and given to the server each time,
\* which is left with what the last time brings.
Counted(table, i, n) ==
    IF n = 0 THEN table
    ELSE Counter!Merged(table, i, Counter!IncreasePayload(Counter!NewMetadata(0), n))

\* The tasks of a board in the order in which they are shown: each is as far from the
\* first as there are smaller ones.
ShownInOrder(table) ==
    LET shown == {e \in Element : Tasks(table)[e] > 0}
    IN  [k \in 1 .. Cardinality(shown) |->
            CHOOSE e \in shown : Cardinality({d \in shown : d < e}) = k - 1]

\* Those of one board after the other are put on the cleared priority list one by one.
ShownPriorities(prio, server) ==
    Seqs!FoldLeft(LAMBDA list, b : Seqs!FoldLeft(InsertPriority, list, ShownInOrder(server[b])),
                  ClearedPriorities(prio), Boards)

\* All of it is global: the ids are 0 until the first login ends.
NewMemory ==
    [id |-> 0,
     list |-> [b \in Board |-> NewMultiSet],
     server |-> [b \in Board |-> <<>>],
     counters |-> [b \in Board |-> <<>>],
     priorities |-> NewPriorities]

-----------------------------------------------------------------------------

Idle == [step |-> "none"]

\* The files of the first board are next; a login ends with the new ids.
Converge(login) == [step |-> "converge", board |-> 1, left |-> Name, login |-> login]

Show(login) == [step |-> "show", login |-> login]

\* The status is found to be 0 and not yet set.
LoggingIn == [step |-> "login", login |-> TRUE]

Init ==
    /\ uniqueID \in Naming
    /\ json = [b \in Board |-> [n \in Name |-> NoFile]]
    /\ online = {}
    /\ loggedIn = [p \in Process |-> None]
    /\ endUser = [p \in Process |-> None]
    /\ memory = [p \in Process |-> NewMemory]
    /\ doing = [p \in Process |-> Idle]
    /\ edits = [p \in Process |-> 0]
    /\ logins = [p \in Process |-> 0]
    /\ created = [b \in Board |-> NoCopies]
    /\ overwritten = FALSE
    /\ carried = FALSE

OnBoard(p) == loggedIn[p] # None /\ doing[p] = Idle

\* A login that finds status 0.  The lists and servers are those of whoever was logged
\* in before.
Login(p, a) ==
    /\ loggedIn[p] = None
    /\ a \notin online
    /\ logins[p] < MaxLogins[p]
    /\ logins' = [logins EXCEPT ![p] = @ + 1]
    /\ loggedIn' = [loggedIn EXCEPT ![p] = a]
    /\ endUser' = [endUser EXCEPT ![p] = a]
    /\ doing' = [doing EXCEPT ![p] = LoggingIn]
    /\ carried' = \/ carried
                  \/ memory[p].id # uniqueID[a] /\ \E b \in Board : memory[p].list[b] # NewMultiSet
    /\ UNCHANGED <<uniqueID, json, online, memory, edits, created, overwritten>>

\* It sets the status and shows the boards, for which they are merged.
SetOnline(p) ==
    /\ doing[p].step = "login"
    /\ online' = online \cup {loggedIn[p]}
    /\ doing' = [doing EXCEPT ![p] = Converge(TRUE)]
    /\ UNCHANGED <<uniqueID, json, loggedIn, endUser, memory, edits, logins, created,
                   overwritten, carried>>

\* "Merge".  It merges twice, when it shows the boards anew and then itself, which is
\* no more than to be asked twice.
Merge(p) ==
    /\ OnBoard(p)
    /\ doing' = [doing EXCEPT ![p] = Converge(FALSE)]
    /\ UNCHANGED <<uniqueID, json, online, loggedIn, endUser, memory, edits, logins, created,
                   overwritten, carried>>

\* Mutant: what the process has begun goes on.
GoneButBusy(p) ==
    /\ loggedIn' = [loggedIn EXCEPT ![p] = None]
    /\ endUser' = [endUser EXCEPT ![p] = None]
    /\ memory' = [memory EXCEPT ![p] = NewMemory]
    /\ UNCHANGED doing

\* The process ends, and another one may be started.
Gone(p) ==
    /\ loggedIn' = [loggedIn EXCEPT ![p] = None]
    /\ endUser' = [endUser EXCEPT ![p] = None]
    /\ memory' = [memory EXCEPT ![p] = NewMemory]
    /\ doing' = [doing EXCEPT ![p] = Idle]

\* What comes after file n: the next one, the next board, or what is shown.
AfterFile(p, n) ==
    LET left == doing[p].left \ {n} IN
    IF left # {} THEN [doing[p] EXCEPT !.left = left]
    ELSE IF doing[p].board < Len(Boards) THEN [doing[p] EXCEPT !.board = @ + 1, !.left = Name]
    ELSE Show(doing[p].login)

\* One file of the directory of a board is read, in any order.  The parser throws
\* on a file that is being written, nobody catches it, and the status stays at 1.
\* The lists of a board are given to the server together; nothing looks at it before.
ReadFile(p) ==
    /\ doing[p].step = "converge"
    /\ \E n \in doing[p].left :
          LET b == Boards[doing[p].board]
              read == json[b][n]
          IN  IF read = Torn THEN Gone(p)
              ELSE /\ memory' = IF read = NoFile THEN memory
                                ELSE [memory EXCEPT ![p].server[b] =
                                         MergedLists(@, read.id, read.list)]
                   /\ doing' = [doing EXCEPT ![p] = AfterFile(p, n)]
                   /\ UNCHANGED <<loggedIn, endUser>>
    /\ UNCHANGED <<uniqueID, json, online, edits, logins, created, overwritten, carried>>

\* The boards are shown; a login goes on to set the ids of everything.
UpdateTable(p) ==
    /\ doing[p].step = "show"
    /\ memory' = [memory EXCEPT
          ![p].priorities = ShownPriorities(@, memory[p].server),
          ![p].counters = [b \in Board |->
              Counted(ClearedCounters(@[b]), memory[p].id, HowMany(Tasks(memory[p].server[b])))],
          ![p].id = IF doing[p].login THEN uniqueID[loggedIn[p]] ELSE @]
    /\ doing' = [doing EXCEPT ![p] = Idle]
    /\ UNCHANGED <<uniqueID, json, online, loggedIn, endUser, edits, logins, created,
                   overwritten, carried>>

\* Nothing of what a file holds is missing in the list.
Covers(list, saved) ==
    saved.status = "saved" =>
        MostCopiesOfBoth(saved.list, list) = list

\* The list is changed, and the file opened, which empties it.
Edit(p, b, list) ==
    LET n == userName[loggedIn[p]] IN
    /\ edits[p] < MaxEdits[p]
    /\ edits' = [edits EXCEPT ![p] = @ + 1]
    /\ memory' = [memory EXCEPT ![p].list[b] = list]
    /\ json' = [json EXCEPT ![b][n] = Torn]
    /\ overwritten' = (overwritten \/ ~Covers(list, json[b][n]))
    /\ doing' = [doing EXCEPT ![p] = [step |-> "save", board |-> b]]
    /\ UNCHANGED <<uniqueID, online, loggedIn, endUser, logins, carried>>

\* A new task.  That it is put on the priority list first makes no difference: the
\* list is cleared below.
CreateBoard(p, b, e) ==
    /\ OnBoard(p)
    /\ Edit(p, b, InsertCopy(memory[p].list[b], e))
    /\ created' = [created EXCEPT ![b] = OneMore(@, e)]

\* The red button of a task that is shown.
DeleteBoard(p, b, e) ==
    /\ OnBoard(p)
    /\ Tasks(memory[p].server[b])[e] > 0
    /\ Edit(p, b, RemoveCopies(memory[p].list[b], e))
    /\ UNCHANGED created

\* The file is written, and the list given to the server.  Of two processes that write
\* one user's file the later one's list counts: the parser stops where it ends.
Save(p) ==
    /\ doing[p].step = "save"
    /\ LET b == doing[p].board
           n == userName[loggedIn[p]]
           id == memory[p].id
           list == memory[p].list[b]
       IN  /\ json' = [json EXCEPT ![b][n] = Saved(id, list)]
           /\ overwritten' = (overwritten \/ ~Covers(list, json[b][n]))
           /\ memory' = [memory EXCEPT ![p].server[b] = MergedLists(@, id, list)]
    /\ doing' = [doing EXCEPT ![p] = Show(FALSE)]
    /\ UNCHANGED <<uniqueID, online, loggedIn, endUser, edits, logins, created, carried>>

\* The window of addBoard is closed, which sets the status again.
CloseAddWindow(p) ==
    /\ OnBoard(p)
    /\ online' = online \cup {loggedIn[p]}
    /\ UNCHANGED <<uniqueID, json, loggedIn, endUser, memory, doing, edits, logins, created,
                   overwritten, carried>>

\* "Log out": lists and servers stay as they are, and so does the account that a closed
\* window resets.
Logout(p) ==
    /\ OnBoard(p)
    /\ online' = online \ {loggedIn[p]}
    /\ loggedIn' = [loggedIn EXCEPT ![p] = None]
    /\ UNCHANGED <<uniqueID, json, endUser, memory, doing, edits, logins, created, overwritten,
                   carried>>

\* The window is closed, also after a logout, when another process may have logged the
\* account in.  That the status is reset twice, before and after the event loop ends,
\* is one step here.
Close(p) ==
    /\ doing[p] = Idle
    /\ online' = online \ {endUser[p]}
    /\ Gone(p)
    /\ UNCHANGED <<uniqueID, json, edits, logins, created, overwritten, carried>>

\* The process ends at any point: killed, or by an urgency that is not a number.
Crash(p) ==
    /\ p \in MayCrash
    /\ endUser[p] # None
    /\ Gone(p)
    /\ overwritten' = (overwritten \/ doing[p].step = "save")
    /\ UNCHANGED <<uniqueID, json, online, edits, logins, created, carried>>

Next ==
    \E p \in Process :
        \/ \E a \in Uses[p] : Login(p, a)
        \/ SetOnline(p)
        \/ \E b \in Board, e \in Plans[p] : CreateBoard(p, b, e)
        \/ \E b \in Board, e \in Element : DeleteBoard(p, b, e)
        \/ Merge(p) \/ ReadFile(p) \/ Save(p) \/ UpdateTable(p)
        \/ CloseAddWindow(p) \/ Logout(p) \/ Close(p) \/ Crash(p)

Spec == Init /\ [][Next]_vars

\* A process that is in the middle of something comes to its end, which is never more
\* than a few steps away (said without WF, whose ENABLED is costly to evaluate here);
\* and users on the board keep asking for a merge (the thread that would do so every
\* ten seconds is commented out).
FairSpec ==
    /\ Spec
    /\ \A p \in Process : []<>(doing[p] = Idle) /\ WF_vars(Merge(p))

-----------------------------------------------------------------------------
(* Properties *)

MultiSetMetadata == [payload : Copies, tombstone : Copies]

Files == {NoFile, Torn} \cup
    [status : {"saved"}, id : Range(uniqueID), list : MultiSetMetadata]

\* The tables of a server and of a counter.
IsTable(table, ids, S) == DOMAIN table \subseteq ids /\ table \in [DOMAIN table -> S]

IsMemory(m, ids) ==
    /\ DOMAIN m = {"id", "list", "server", "counters", "priorities"}
    /\ m.id \in ids \cup {0}
    /\ m.list \in [Board -> MultiSetMetadata]
    /\ DOMAIN m.server = Board /\ DOMAIN m.counters = Board
    /\ \A b \in Board : /\ IsTable(m.server[b], ids, MultiSetMetadata)
                        /\ IsTable(m.counters[b], ids \cup {0}, Counter!Metadata)

Doings ==
    {Idle, LoggingIn}
    \cup [step : {"save"}, board : Board] \cup [step : {"show"}, login : BOOLEAN]
    \cup [step : {"converge"}, board : DOMAIN Boards, left : (SUBSET Name) \ {{}}, login : BOOLEAN]

TypeOK ==
    /\ uniqueID \in Naming
    /\ json \in [Board -> [Name -> Files]]
    /\ online \subseteq Account
    /\ loggedIn \in [Process -> Account \cup {None}] /\ endUser \in [Process -> Account \cup {None}]
    /\ DOMAIN memory = Process
    /\ \A p \in Process : IsMemory(memory[p], Range(uniqueID))
    /\ doing \in [Process -> Doings]
    /\ \A p \in Process : /\ loggedIn[p] = None => doing[p] = Idle
                          /\ loggedIn[p] # None => endUser[p] = loggedIn[p]
    /\ edits \in [Process -> Nat] /\ logins \in [Process -> Nat]
    /\ created \in [Board -> Copies]
    /\ overwritten \in BOOLEAN /\ carried \in BOOLEAN

\* The number below a board is that of the tasks on it, copies included, though
\* the counter has had other ids and had counted tasks that are deleted by now.
CountIsShown ==
    \A p \in Process, b \in Board :
        OnBoard(p) => Counter!InternalPayload(memory[p].counters[b])
                        = HowMany(Tasks(memory[p].server[b])) % Modulus

\* The priority list has, per number, the words of all tasks on all boards that
\* begin with it, and of no others: one task of a number does not hide another.
PriorityOfShown ==
    \A p \in Process : OnBoard(p) =>
        LET shown == {e \in Element : \E b \in Board : Tasks(memory[p].server[b])[e] > 0}
            total == memory[p].priorities.total
        IN  /\ DOMAIN total = {urgency[e] : e \in shown}
            /\ \A u \in DOMAIN total : total[u] = UNION {words[e] : e \in {t \in shown : urgency[t] = u}}

\* No task is shown more often than it was created, by whichever users, in however
\* many merges of the same files and after whatever restarts; unless a user's list
\* was taken over by another user of the process.
NoTaskTwice ==
    ~carried => \A p \in Process, b \in Board, e \in Element :
                    Tasks(memory[p].server[b])[e] <= created[b][e]

\* A task that a process has seen deleted is not shown by it again while it runs,
\* whoever creates it anew, and whichever users log in.
DeletedStaysHidden ==
    [][\A p \in Process, b \in Board :
          LET before == CachedMultiSet(memory[p].server[b]).tombstone
          IN  \A e \in Element :
                  before[e] > 0 => Tasks(memory'[p].server[b])[e] = 0]_vars

\* From some time on everybody stays at his board.
StayOnBoard == <>[](\A p \in Process : loggedIn[p] # None)

\* Then what is in a file reaches all of them: its tasks, and that they are deleted,
FilesReachAll ==
    StayOnBoard => <>[](\A p \in Process, b \in Board, n \in Name :
        LET held == CachedMultiSet(memory[p].server[b])
            saved == json[b][n]
        IN  saved.status = "saved" => \A e \in Element :
                /\ saved.list.payload[e] <= held.payload[e]
                /\ saved.list.tombstone[e] > 0 => Tasks(memory[p].server[b])[e] = 0)

\* and all show the same boards, if no file has lost what was saved in it: a process
\* does not read its own file into its lists, and saves over it after a restart.
BoardsConverge ==
    StayOnBoard /\ []~overwritten => <>[](\A p, q \in Process, b \in Board :
        Tasks(memory[p].server[b]) = Tasks(memory[q].server[b]))

\* What README.md:43 promises of an application that goes offline and comes back: in
\* the end all show the same boards, also after a restart.
RestartsConverge ==
    StayOnBoard => <>[](\A p, q \in Process, b \in Board :
        Tasks(memory[p].server[b]) = Tasks(memory[q].server[b]))

=============================================================================
